---- MODULE Spec2Model ----
(***************************************************************************)
(* A model of the AASX ETL pipeline of aas-data-modeling:                  *)
(*   - the Loader (backend/aasx/aasx_loader.py): file export, relational   *)
(*     load into four SQLite tables, vector load;                          *)
(*   - the Extractor (webapp/aasx/aasx_processor.py, dotnet_bridge.py);    *)
(*   - the Pipeline Orchestrator (backend/aasx/aasx_etl_pipeline.py):      *)
(*     process_aasx_file, process_aasx_directory (sequential and parallel),*)
(*     process_aasx_batch, reset_stats.                                    *)
(* Python exceptions are modelled explicitly: an operator that models a    *)
(* function returns a record with a field `raised`, and a try/except of    *)
(* the source is the place where `raised` is turned back into a value.     *)
(***************************************************************************)
EXTENDS Integers, Sequences, FiniteSets, TLC

VARIABLES
    \* ---- Loader side (aasx_loader.py)
    db,         \* the SQLite database file named by config.database_path
    loader,     \* the AASXLoader instance in use (the pipeline's self.loader)
    loadOut,    \* observation of the last load_aasx_data call made directly
    nloads,     \* number of load_aasx_data calls made directly on the loader
    \* ---- Orchestrator side (aasx_etl_pipeline.py)
    config,     \* ETLPipelineConfig / LoaderConfig switches
    stats,      \* AASXETLPipeline.stats
    fileOut,    \* observation of the last process_aasx_file execution
    batch,      \* the process_aasx_directory / process_aasx_batch call in progress or last returned
    ncalls,     \* process_aasx_file calls executed on the orchestrator itself since
                \* construction or the last reset_stats
    nruns,      \* process_aasx_file executions so far (orchestrator, workers, batch pipelines)
    \* ---- Transformer side (aasx_transformer.py)
    transformer,  \* the AASXTransformer instance: its config and quality_metrics
    tin,          \* the extracted data handed to transform_aasx_data
    tearlier,     \* the extracted data of an earlier call on the same instance
    tout,         \* observation of the last transform_aasx_data call
    ntransforms,  \* number of transform_aasx_data calls made on the instance
    \* ---- Extractor side (aasx_processor.py, dotnet_bridge.py)
    xout,         \* observation of the last process() / bridge call made directly
    temps,        \* temporary output files of the bridge that are on disk
    nextracts,    \* number of process() / bridge calls made directly
    \* ---- Loader queries
    statsOut,     \* observation of the last get_database_stats call
    \* ---- Orchestrator queries and the files of the export step
    queryOut,     \* observation of the last get_pipeline_stats, validate_pipeline,
                  \* export_pipeline_report or create_rag_ready_dataset call
    persist       \* the output encoding of the Transformer, the clock (in
                  \* seconds) and the files each process_aasx_file exported

lvars == <<db, loader, loadOut, nloads>>
pvars == <<config, stats, fileOut, batch, ncalls, nruns>>
tvars == <<transformer, tin, tearlier, tout, ntransforms>>
xvars == <<xout, temps, nextracts>>
ovars == <<queryOut, persist>>
vars == <<db, loader, loadOut, nloads, config, stats, fileOut, batch, ncalls, nruns,
          transformer, tin, tearlier, tout, ntransforms, xout, temps, nextracts,
          statsOut, queryOut, persist>>

(***************************************************************************)
(* Bounds of the model.                                                    *)
(***************************************************************************)
MaxLoads == 2   \* load_aasx_data calls explored in SpecLoad
MaxRuns == 2    \* process_aasx_file executions explored in Spec
MaxFiles == 2   \* package files in one directory / file list
MaxAssets == 2      \* assets in the extracted data given to the Transformer
MaxSubmodels == 1   \* submodels in the extracted data given to the Transformer
MaxTransforms == 2  \* transform_aasx_data calls on one Transformer instance
MaxExtracts == 2    \* process() / bridge calls explored in SpecExtract
MaxSeconds == 1     \* seconds the clock advances in SpecPersist
PhaseTicks == 1 \* clock ticks one phase takes (time.time() differences)

(***************************************************************************)
(* Data: transformed records as the Loader reads them.                     *)
(***************************************************************************)
NoRelationships == <<>>

\* data_kind is the shape of transformed_data['data']: a dict (json, yaml and
\* csv encodings), a list (flattened encoding) or absent (xml and graph
\* encodings, or a foreign record such as {'invalid': 'data'}).
MakeRecord(a, s, d, r) ==
    [data_kind |-> "dict", assets |-> a, submodels |-> s, documents |-> d,
     relationships |-> r]

EmptyRecord(kind) ==
    [data_kind |-> kind, assets |-> <<>>, submodels |-> <<>>,
     documents |-> <<>>, relationships |-> NoRelationships]

\* An asset with its submodel, a document and the relationship between the two.
FullRecord ==
    MakeRecord(<<"a1">>, <<"s1">>, <<"d1">>,
               <<[source_id |-> "a1", target_id |-> "s1"]>>)

DictRecords ==
    {EmptyRecord("dict"),
     MakeRecord(<<"a1">>, <<>>, <<>>, NoRelationships),
     MakeRecord(<<"a1", "a2">>, <<"s1">>, <<>>,
                <<[source_id |-> "a2", target_id |-> "s1"]>>),
     MakeRecord(<<>>, <<>>, <<"d1">>, NoRelationships),
     FullRecord}

Records == DictRecords \cup {EmptyRecord("list"), EmptyRecord("absent")}

TotalRecords(R) ==
    Len(R.assets) + Len(R.submodels) + Len(R.documents) + Len(R.relationships)

Range(s) == {s[i] : i \in 1..Len(s)}

(***************************************************************************)
(* The relational store: four tables keyed by a string primary key.        *)
(* assets and submodels are keyed by the entity id, so a table is the set  *)
(* of its keys; documents and relationships are keyed by a generated       *)
(* uuid4, modelled as a number no earlier row carries.                     *)
(***************************************************************************)
EmptyDb ==
    [exists |-> FALSE, tables |-> FALSE, assets |-> {}, submodels |-> {},
     documents |-> {}, relationships |-> {}, backups |-> 0]

RowCounts(dbv) ==
    [assets |-> Cardinality(dbv.assets), submodels |-> Cardinality(dbv.submodels),
     documents |-> Cardinality(dbv.documents),
     relationships |-> Cardinality(dbv.relationships)]

\* uuid.uuid4(): a key that no row of the table carries yet.
Uuid4(rows) == Cardinality(rows) + 1

\* INSERT OR REPLACE INTO assets/submodels: the row with this id is replaced.
InsertAsset(rows, asset) == rows \cup {asset}

InsertSubmodel(rows, submodel) == rows \cup {submodel}

\* INSERT OR REPLACE INTO documents with doc_id = str(uuid.uuid4()).
InsertDocument(rows, document) ==
    rows \cup {[id |-> Uuid4(rows), filename |-> document]}

\* INSERT OR REPLACE INTO relationships with rel_id = str(uuid.uuid4()).
InsertRelationship(rows, relationship) ==
    rows \cup {[id |-> Uuid4(rows), source_id |-> relationship.source_id,
                target_id |-> relationship.target_id]}

\* The insert method _load_to_database calls for the entities of a table.
InsertRow(table, rows, x) ==
    CASE table = "assets" -> InsertAsset(rows, x)
      [] table = "submodels" -> InsertSubmodel(rows, x)
      [] table = "documents" -> InsertDocument(rows, x)
      [] table = "relationships" -> InsertRelationship(rows, x)

RECURSIVE InsertAll(_, _, _, _)
\* for x in list: self._insert_x(cursor, x), from the i-th entity on.
InsertAll(table, rows, list, i) ==
    IF i > Len(list) THEN rows
    ELSE InsertAll(table, InsertRow(table, rows, list[i]), list, i + 1)

(***************************************************************************)
(* Faults the environment can inject into one load_aasx_data call.         *)
(*   export : the write that raises in _export_to_files                    *)
(*   db     : the place where _load_to_database raises: the backup copy,   *)
(*            sqlite3.connect, the at-th INSERT, or the commit             *)
(*   vector : the embedding / collection.add of _add_to_vector_db raises   *)
(***************************************************************************)
ExportFaults == {"none", "yaml", "graph"}

NoDbFault == [step |-> "none", at |-> 0]

\* The INSERT that raises is the last one of the record.
DbFaults(R) ==
    {NoDbFault, [step |-> "backup", at |-> 0], [step |-> "open", at |-> 0],
     [step |-> "commit", at |-> 0]}
    \cup {[step |-> "insert", at |-> k] : k \in {TotalRecords(R)} \ {0}}

NoFaults == [export |-> "none", db |-> NoDbFault, vector |-> FALSE]

(***************************************************************************)
(* AASXLoader._export_to_files                                             *)
(***************************************************************************)
ExportSteps == <<"json", "yaml", "csv", "graph">>

\* The csv export runs only when data['data'] is a dict.
ExportStepRuns(R, s) == s # "csv" \/ R.data_kind = "dict"

\* _create_graph_format calls data.get('data', {}).get(...), which raises on a list.
ExportStepRaises(R, fault, s) ==
    ExportStepRuns(R, s) /\ (fault = s \/ (s = "graph" /\ R.data_kind = "list"))

\* Steps are executed in order until the first one raises; the except clause of
\* _export_to_files logs and the function returns what was appended so far.
ExportedBefore(R, fault, i) ==
    \A j \in 1..i : ~ExportStepRaises(R, fault, ExportSteps[j])

\* _export_to_csv opens the csv file only if flattened_data is non-empty.
CsvWritten(R) == Len(R.assets) + Len(R.submodels) > 0

ExportToFiles(R, fault) ==
    LET ok == {i \in 1..Len(ExportSteps) :
                  ExportStepRuns(R, ExportSteps[i]) /\ ExportedBefore(R, fault, i)}
        listed == SelectSeq(ExportSteps, LAMBDA s :
                      \E i \in ok : ExportSteps[i] = s)
    IN  [files |-> listed,
         written |-> {s \in Range(listed) : s # "csv" \/ CsvWritten(R)},
         failed |-> \E i \in 1..Len(ExportSteps) :
                       ExportStepRaises(R, fault, ExportSteps[i]),
         raised |-> FALSE]

(***************************************************************************)
(* AASXLoader._load_to_database.  ld is the loader instance, cfg the       *)
(* configuration, fault the injected fault.  The whole body is inside one  *)
(* try/except that logs and falls through to `return records_loaded`.      *)
(* sqlite3 semantics: connect creates the file; CREATE TABLE is committed  *)
(* at once (DDL does not open a transaction); the INSERTs are committed    *)
(* by conn.commit() only, and are rolled back when the connection is       *)
(* dropped after a fault.                                                  *)
(***************************************************************************)
\* if self.config.backup_existing and db_path.exists() and not hasattr(self, '_backup_created')
BackupDue(dbv, ld, cfg) ==
    cfg.backup_existing /\ dbv.exists /\ ~ld.backup_created

\* Number of INSERTs executed before the fault hit (all of them without a fault).
\* data.get('data', {}) is {} when the section is absent, and a list has no .get.
RecordsLoaded(R, fault) ==
    IF R.data_kind = "list" THEN 0
    ELSE IF fault.step = "insert" THEN fault.at - 1
    ELSE TotalRecords(R)

Committed(R, fault) == R.data_kind # "list" /\ fault.step = "none"

\* The body of the try block: what was done when it ended or was left by a fault.
DatabaseLoadBody(R, dbv, ld, cfg, fault) ==
    LET due == BackupDue(dbv, ld, cfg)
        \* shutil.copy2 raised: neither the copy nor the flag is made
        backedUp == due /\ fault.step # "backup"
        stopped == due /\ fault.step = "backup"
        db1 == IF backedUp THEN [dbv EXCEPT !.backups = @ + 1] ELSE dbv
        ld1 == IF backedUp THEN [ld EXCEPT !.backup_created = TRUE] ELSE ld
        opened == ~stopped /\ fault.step # "open"
        ld2 == IF opened THEN [ld1 EXCEPT !.wrote = TRUE] ELSE ld1
        db2 == IF opened THEN [db1 EXCEPT !.exists = TRUE, !.tables = TRUE] ELSE db1
        commit == opened /\ Committed(R, fault)
        db3 == IF commit
               THEN [db2 EXCEPT
                       !.assets = InsertAll("assets", @, R.assets, 1),
                       !.submodels = InsertAll("submodels", @, R.submodels, 1),
                       !.documents = InsertAll("documents", @, R.documents, 1),
                       !.relationships =
                           InsertAll("relationships", @, R.relationships, 1)]
               ELSE db2
    IN  [records |-> IF opened THEN RecordsLoaded(R, fault) ELSE 0,
         db |-> db3, loader |-> ld2, failed |-> ~commit]

\* A variant of LoadToDatabase without the except clause: a fault in the
\* body propagates to load_aasx_data.
LoadToDatabase_Propagates(b) ==
    [records |-> b.records, db |-> b.db, loader |-> b.loader,
     failed |-> b.failed, raised |-> b.failed]

\* try: body / except Exception: logger.error / return records_loaded,
\* where b is what the body did.
LoadToDatabase(b) ==
    [records |-> b.records, db |-> b.db, loader |-> b.loader,
     failed |-> b.failed, raised |-> FALSE]

\* The faults that can occur in a load of R on this loader and database: a
\* backup fault needs a backup to be due, a vector fault an embedding model.
LoadFaults(R, dbv, ld, cfg) ==
    {f \in [export : ExportFaults, db : DbFaults(R), vector : BOOLEAN] :
        /\ f.db.step = "backup" => BackupDue(dbv, ld, cfg)
        /\ f.vector => ld.embedding_model}

(***************************************************************************)
(* AASXLoader._load_to_vector_db / _add_to_vector_db.  Without an          *)
(* embedding model the step is skipped.  _add_to_vector_db catches its own *)
(* faults, so every entity is counted; only the list-shaped data section   *)
(* raises in the loop header, inside the try of _load_to_vector_db.  The   *)
(* content of the vector store is read by no operation modelled here and   *)
(* is not part of the state.                                               *)
(***************************************************************************)
LoadToVectorDb(R, ld, fault) ==
    [embeddings |->
        IF ~ld.embedding_model \/ R.data_kind = "list" THEN 0
        ELSE Len(R.assets) + Len(R.submodels) + Len(R.documents),
     failed |-> ld.embedding_model /\ (fault \/ R.data_kind = "list"),
     raised |-> FALSE]

(***************************************************************************)
(* AASXLoader.load_aasx_data: the three steps inside one try; the except   *)
(* clause appends one message to results['errors'].                        *)
(***************************************************************************)
\* e, d and v are the outcomes of the three steps; a step that raised keeps
\* the later ones from running.
LoadSteps(dbv, ld, e, d, v) ==
    LET ranDb == ~e.raised
        ranVec == ranDb /\ ~d.raised
        anyRaised == e.raised \/ (ranDb /\ d.raised) \/ (ranVec /\ v.raised)
    IN  [result |->
            [files_exported |-> IF e.raised THEN <<>> ELSE e.files,
             database_records |-> IF ranDb /\ ~d.raised THEN d.records ELSE 0,
             vector_embeddings |-> IF ranVec /\ ~v.raised THEN v.embeddings ELSE 0,
             errors |-> IF anyRaised THEN <<"Error during AASX loading">> ELSE <<>>],
         db |-> IF ranDb THEN d.db ELSE dbv,
         loader |-> IF ranDb THEN d.loader ELSE ld,
         written |-> e.written,
         trace |-> <<"export">> \o (IF ranDb THEN <<"database">> ELSE <<>>)
                       \o (IF ranVec THEN <<"vector">> ELSE <<>>),
         failed |-> [export |-> e.failed, database |-> ranDb /\ d.failed,
                     vector |-> ranVec /\ v.failed],
         raised |-> FALSE]

LoadAasxData(R, dbv, ld, cfg, faults) ==
    LoadSteps(dbv, ld,
              ExportToFiles(R, faults.export),
              LoadToDatabase(DatabaseLoadBody(R, dbv, ld, cfg, faults.db)),
              LoadToVectorDb(R, ld, faults.vector))

(***************************************************************************)
(* Observations of load_aasx_data calls (history, read by the properties). *)
(***************************************************************************)
NoLoad ==
    [called |-> FALSE, R |-> EmptyRecord("absent"),
     result |-> [files_exported |-> <<>>, database_records |-> 0,
                 vector_embeddings |-> 0, errors |-> <<>>],
     written |-> {}, trace |-> <<>>,
     failed |-> [export |-> FALSE, database |-> FALSE, vector |-> FALSE],
     raised |-> FALSE, before |-> RowCounts(EmptyDb), after |-> RowCounts(EmptyDb),
     backups |-> 0, repeated |-> FALSE]

\* repeated: the call before this one loaded the same record, and both calls
\* committed their rows.
Observe(R, o, dbBefore, last) ==
    [called |-> TRUE, R |-> R, result |-> o.result, written |-> o.written,
     trace |-> o.trace, failed |-> o.failed, raised |-> o.raised,
     before |-> RowCounts(dbBefore), after |-> RowCounts(o.db),
     backups |-> o.db.backups - dbBefore.backups,
     repeated |-> last.called /\ last.R = R /\ ~last.failed.database
                  /\ ~o.failed.database]

\* AASXLoader.__init__: a new instance has no _backup_created attribute.
\* wrote records that the instance has opened the database file for writing
\* (sqlite3.connect creates the file, CREATE TABLE IF NOT EXISTS follows).
\* embedding_model is None unless sentence_transformers is importable and
\* the model loads.
NewLoader(cfg) ==
    [created |-> TRUE, backup_created |-> FALSE, embedding_model |-> cfg.embeddings,
     wrote |-> FALSE]

\* self.loader = None
NoLoader ==
    [created |-> FALSE, backup_created |-> FALSE, embedding_model |-> FALSE,
     wrote |-> FALSE]

\* backup_existing, separate_file_outputs: LoaderConfig; parallel_processing:
\* ETLPipelineConfig; embeddings: SENTENCE_TRANSFORMERS_AVAILABLE and the
\* embedding model loads.
Configs ==
    [backup_existing : BOOLEAN, embeddings : BOOLEAN,
     separate_file_outputs : BOOLEAN, parallel_processing : BOOLEAN]

\* The database file may be left over from an earlier run of the program.
InitialDbs == {EmptyDb, [EmptyDb EXCEPT !.exists = TRUE, !.tables = TRUE]}

InitialStats ==
    [files_processed |-> 0, files_failed |-> 0, total_processing_time |-> 0,
     extract_time |-> 0, transform_time |-> 0, load_time |-> 0, errors |-> <<>>]

(***************************************************************************)
(* The environment of one process_aasx_file execution.                     *)
(*   file   : what the path names: nothing ("missing"), a file without the *)
(*            .aasx suffix ("badext"), a file that is no readable archive  *)
(*            ("corrupt"), a readable archive whose content the            *)
(*            Transformer cannot handle ("malformed"), a good package      *)
(*   dotnet : the external processor: "unavailable", returns "data",       *)
(*            returns None or a record with 'error' ("fail"), or returns   *)
(*            a value on which the test of the result raises ("raise")     *)
(*   libs   : aasx_package / aas_core3: "unavailable", deliver "data", or  *)
(*            "raise"                                                      *)
(*   R      : the record the Transformer returns for the package           *)
(*   ctor_fault : AASXLoader(...) raises when it is constructed            *)
(*   faults : the faults injected into load_aasx_data                      *)
(* An unreadable archive is unreadable to every strategy.                  *)
(***************************************************************************)
FileKinds == {"missing", "badext", "corrupt", "malformed", "valid"}

BaseEnv ==
    [file |-> "valid", dotnet |-> "unavailable", libs |-> "unavailable",
     R |-> FullRecord, ctor_fault |-> FALSE, faults |-> NoFaults]

EnvsOf(kind) ==
    IF kind # "valid"
    THEN {[BaseEnv EXCEPT !.file = kind]}
    ELSE {BaseEnv,
          [BaseEnv EXCEPT !.dotnet = "data"],
          [BaseEnv EXCEPT !.dotnet = "fail", !.libs = "data"],
          [BaseEnv EXCEPT !.dotnet = "fail", !.libs = "raise"],
          [BaseEnv EXCEPT !.ctor_fault = TRUE],
          [BaseEnv EXCEPT !.faults.db = [step |-> "open", at |-> 0]],
          [BaseEnv EXCEPT !.R = EmptyRecord("dict")]}

(***************************************************************************)
(* AASXProcessor (aasx_processor.py)                                       *)
(***************************************************************************)
\* What a strategy returns or raises; trace lists the strategies that ran,
\* contents tells whether the collections of the result hold parsed entities.
Extracted(method) ==
    [raised |-> FALSE, method |-> method, contents |-> "parsed", trace |-> <<>>]

ExtractRaised == [raised |-> TRUE, method |-> "", contents |-> "", trace |-> <<>>]

\* The strategy `name` ran before the strategies of r.
After(name, r) == [r EXCEPT !.trace = <<name>> \o @]

\* _process_basic: zipfile.ZipFile raises on an unreadable archive, and the
\* except clause re-raises.
ProcessBasic(env) ==
    After("basic", IF env.file = "corrupt" THEN ExtractRaised
                   ELSE Extracted("basic_zip_processing"))

\* _process_with_aas_libraries: except Exception: return self._process_basic()
ProcessWithAasLibraries(env) ==
    After("libs", IF env.libs = "data" THEN Extracted("advanced_aas_libraries")
                  ELSE ProcessBasic(env))

\* The try block of process(): the .NET result is returned when it is truthy
\* and has no 'error' (the test raises when the result is not a container);
\* otherwise the libraries, when available, else the basic walk.
ProcessBody(env) ==
    IF env.dotnet = "data" THEN After("dotnet", Extracted("dotnet"))
    ELSE IF env.dotnet = "raise" THEN After("dotnet", ExtractRaised)
    ELSE LET rest == IF env.libs # "unavailable" THEN ProcessWithAasLibraries(env)
                     ELSE ProcessBasic(env)
         IN  IF env.dotnet = "fail" THEN After("dotnet", rest) ELSE rest

\* A variant of Process whose last fallback swallows the unreadable archive
\* and delivers empty collections.
Process_SwallowsBadZip(env) ==
    IF ProcessBody(env).raised
    THEN [Extracted("basic_zip_processing") EXCEPT
             !.contents = "empty", !.trace = ProcessBody(env).trace \o <<"basic">>]
    ELSE ProcessBody(env)

\* process(): any exception of the try block leads to one more
\* _process_basic().
Process(env) ==
    IF ProcessBody(env).raised
    THEN [ProcessBasic(env) EXCEPT !.trace = ProcessBody(env).trace \o @]
    ELSE ProcessBody(env)

(***************************************************************************)
(* DotNetAasBridge.process_aasx_file (dotnet_bridge.py).  What one call    *)
(* meets:                                                                  *)
(*   no_exe            : self.processor_exe is None                        *)
(*   no_tempfile       : tempfile.NamedTemporaryFile raises                *)
(*   run_raises        : subprocess.run raises (the executable cannot be   *)
(*                       started)                                          *)
(*   nonzero_exit      : the executable returns a non-zero exit code       *)
(*   unreadable_output : the output file cannot be opened or decoded       *)
(*   malformed_json    : json.load raises                                  *)
(*   unlink_fails      : os.unlink raises after the output was read        *)
(*   empty_record      : the output is {} (or another falsy JSON value)    *)
(*   error_record      : the output is a record with the key 'error'       *)
(*   scalar            : the output is a truthy JSON value that is no      *)
(*                       container, e.g. a number                          *)
(*   data              : the output is a record without the key 'error'    *)
(***************************************************************************)
BridgeRuns ==
    {"no_exe", "no_tempfile", "run_raises", "nonzero_exit", "unreadable_output",
     "malformed_json", "unlink_fails", "empty_record", "error_record", "scalar",
     "data"}

NoBridgeCall == [called |-> FALSE, value |-> "None", temp_created |-> FALSE,
                 temp_left |-> FALSE]

\* process_aasx_file: the temporary file is made with delete=False and is
\* unlinked on one path only, after json.load; every other path returns
\* None (the early return or the except clause) without unlinking.  The
\* function never raises.
BridgeProcessAasxFile(run) ==
    IF run \in {"no_exe", "no_tempfile"}
    THEN [called |-> TRUE, value |-> "None", temp_created |-> FALSE, temp_left |-> FALSE]
    ELSE IF run \in {"run_raises", "nonzero_exit", "unreadable_output",
                     "malformed_json", "unlink_fails"}
    THEN [called |-> TRUE, value |-> "None", temp_created |-> TRUE, temp_left |-> TRUE]
    ELSE [called |-> TRUE, value |-> run, temp_created |-> TRUE, temp_left |-> FALSE]

\* How process() sees the bridge: is_available() is false without an
\* executable; `result and 'error' not in result` is false for None, {} and
\* a record with 'error', raises TypeError for a truthy value that is no
\* container, and is true for a data record.
DotnetOutcome(run) ==
    IF run = "no_exe" THEN "unavailable"
    ELSE IF BridgeProcessAasxFile(run).value = "data" THEN "data"
    ELSE IF BridgeProcessAasxFile(run).value = "scalar" THEN "raise"
    ELSE "fail"

\* The temporary files on disk after a call that met `run`.
TempsAfter(n, o) == IF o.temp_left THEN n + 1 ELSE n

LibsOutcomes == {"unavailable", "data", "raise"}

\* An archive that cannot be read is read by no strategy.
Plausible(file, run, libs) ==
    file = "corrupt" => (run # "data" /\ libs # "data")

ExtractEnv(file, run, libs) ==
    [BaseEnv EXCEPT !.file = file, !.dotnet = DotnetOutcome(run), !.libs = libs]

NoExtract ==
    [called |-> FALSE, op |-> "", file |-> "valid", run |-> "no_exe",
     libs |-> "unavailable", result |-> ExtractRaised, bridge |-> NoBridgeCall]

ObserveExtract(op, file, run, libs, result, bridge) ==
    [called |-> TRUE, op |-> op, file |-> file, run |-> run, libs |-> libs,
     result |-> result, bridge |-> bridge]

\* The Extractor is not called directly in the other specifications.
ExtractorUnused ==
    /\ xout = NoExtract
    /\ temps = 0
    /\ nextracts = 0

(***************************************************************************)
(* The three phases of AASXETLPipeline.  Each returns the dictionary the   *)
(* source builds: success, error, and what the phase delivers.             *)
(***************************************************************************)
NullPhase == [set |-> FALSE, success |-> FALSE, error |-> "", method |-> ""]

PhaseOk(method) == [set |-> TRUE, success |-> TRUE, error |-> "", method |-> method]

PhaseFailed(error) == [set |-> TRUE, success |-> FALSE, error |-> error, method |-> ""]

\* _extract_phase: AASXProcessor(path) raises FileNotFoundError / ValueError;
\* process() may raise; every exception is caught and reported.  process()
\* never returns a dictionary with an 'error' key, so the else branch of the
\* source is not taken.
ExtractPhase(env) ==
    IF env.file = "missing" THEN PhaseFailed("FileNotFoundError")
    ELSE IF env.file = "badext" THEN PhaseFailed("ValueError")
    ELSE LET p == Process(env)
         IN  IF p.raised THEN PhaseFailed("BadZipFile") ELSE PhaseOk(p.method)

\* AASXTransformer.transform_aasx_data: logs and re-raises.
TransformAasxData(env) ==
    IF env.file = "malformed" THEN [raised |-> TRUE, data |-> EmptyRecord("absent")]
    ELSE [raised |-> FALSE, data |-> env.R]

\* _transform_phase: success unless the Transformer raised.
TransformPhase(env) ==
    LET t == TransformAasxData(env)
    IN  IF t.raised THEN PhaseFailed("TransformError") ELSE PhaseOk("")

NullLoadPhase ==
    [set |-> FALSE, success |-> FALSE, error |-> "",
     files_exported |-> <<>>, database_records |-> 0, vector_embeddings |-> 0,
     errors |-> <<>>]

\* _load_phase.  With separate_file_outputs a loader is constructed for the
\* file; otherwise self.loader is constructed on first use and kept.
Constructs(ld, cfg) == cfg.separate_file_outputs \/ ~ld.created

\* o is what load_aasx_data did on the loader in use.
LoadPhaseResult(env, dbv, ld, cfg, o) ==
    IF Constructs(ld, cfg) /\ env.ctor_fault
        THEN [result |-> [NullLoadPhase EXCEPT !.set = TRUE, !.error = "LoaderError"],
              db |-> dbv, loader |-> ld, relational_failed |-> FALSE]
        ELSE [result |-> [set |-> TRUE, success |-> TRUE, error |-> "",
                          files_exported |-> o.result.files_exported,
                          database_records |-> o.result.database_records,
                          vector_embeddings |-> o.result.vector_embeddings,
                          errors |-> o.result.errors],
              db |-> o.db,
              loader |-> IF cfg.separate_file_outputs THEN ld ELSE o.loader,
              relational_failed |-> o.failed.database]

\* The constructor of the loader runs in this execution and raises.
CtorFaults(env, ld, cfg) ==
    env.file = "valid" /\ Constructs(ld, cfg) /\ env.ctor_fault

LoadPhase(env, dbv, ld, cfg) ==
    LoadPhaseResult(env, dbv, ld, cfg,
        LoadAasxData(TransformAasxData(env).data, dbv,
                     IF Constructs(ld, cfg) THEN NewLoader(cfg) ELSE ld,
                     cfg, env.faults))

(***************************************************************************)
(* AASXETLPipeline.process_aasx_file                                       *)
(***************************************************************************)
InitialResult(path) ==
    [file_path |-> path, status |-> "processing", extract_result |-> NullPhase,
     transform_result |-> NullPhase, load_result |-> NullLoadPhase,
     processing_time |-> 0, errors |-> <<>>, error |-> ""]

\* error_msg = f"ETL processing failed for {file_path}: {str(e)}"
ErrorMsg(path, cause) == [failed_for |-> path, cause |-> cause]

\* A variant of RunPhases that does not stop at a failed phase: the
\* `if not ...['success']: raise` checks are missing.
RunPhases_NoShortCircuit(path, st, dbv, ld, x, t, l) ==
    LET ok == x.success /\ t.success /\ l.result.success
    IN  [result |-> [InitialResult(path) EXCEPT
                        !.extract_result = x, !.transform_result = t,
                        !.load_result = l.result],
         stats |-> [st EXCEPT !.extract_time = @ + PhaseTicks,
                              !.transform_time = @ + PhaseTicks,
                              !.load_time = @ + PhaseTicks],
         db |-> l.db, loader |-> l.loader,
         trace |-> <<"extract", "transform", "load">>,
         elapsed |-> 3 * PhaseTicks,
         exception |-> IF ok THEN "" ELSE "Pipeline failed",
         relational_failed |-> l.relational_failed]

\* A variant of RunPhases that does not look at the outcome of the Load phase.
RunPhases_LoadUnchecked(path, st, dbv, ld, x, t, l) ==
    LET runT == x.success
        runL == runT /\ t.success
    IN  [result |-> [InitialResult(path) EXCEPT
                        !.extract_result = x,
                        !.transform_result = IF runT THEN t ELSE NullPhase,
                        !.load_result = IF runL THEN l.result ELSE NullLoadPhase],
         stats |-> [st EXCEPT
                        !.extract_time = @ + PhaseTicks,
                        !.transform_time = IF runT THEN @ + PhaseTicks ELSE @,
                        !.load_time = IF runL THEN @ + PhaseTicks ELSE @],
         db |-> IF runL THEN l.db ELSE dbv,
         loader |-> IF runL THEN l.loader ELSE ld,
         trace |-> <<"extract">> \o (IF runT THEN <<"transform">> ELSE <<>>)
                       \o (IF runL THEN <<"load">> ELSE <<>>),
         elapsed |-> PhaseTicks * (1 + (IF runT THEN 1 ELSE 0) + (IF runL THEN 1 ELSE 0)),
         exception |-> IF ~x.success THEN "Extraction failed"
                       ELSE IF ~t.success THEN "Transformation failed"
                       ELSE "",
         relational_failed |-> runL /\ l.relational_failed]

\* The try block of process_aasx_file up to the last phase check: the phases
\* in order, each followed by `if not ...['success']: raise Exception(...)`.
\* exception is the message of the exception that left the block, "" if none.
RunPhases(path, st, dbv, ld, x, t, l) ==
    LET runT == x.success
        runL == runT /\ t.success
    IN  [result |-> [InitialResult(path) EXCEPT
                        !.extract_result = x,
                        !.transform_result = IF runT THEN t ELSE NullPhase,
                        !.load_result = IF runL THEN l.result ELSE NullLoadPhase],
         stats |-> [st EXCEPT
                        !.extract_time = @ + PhaseTicks,
                        !.transform_time = IF runT THEN @ + PhaseTicks ELSE @,
                        !.load_time = IF runL THEN @ + PhaseTicks ELSE @],
         db |-> IF runL THEN l.db ELSE dbv,
         loader |-> IF runL THEN l.loader ELSE ld,
         trace |-> <<"extract">> \o (IF runT THEN <<"transform">> ELSE <<>>)
                       \o (IF runL THEN <<"load">> ELSE <<>>),
         elapsed |-> PhaseTicks * (1 + (IF runT THEN 1 ELSE 0) + (IF runL THEN 1 ELSE 0)),
         exception |-> IF ~x.success THEN "Extraction failed"
                       ELSE IF ~t.success THEN "Transformation failed"
                       ELSE IF ~l.result.success THEN "Loading failed"
                       ELSE "",
         relational_failed |-> runL /\ l.relational_failed]

\* The end of the try block (no exception left the phases).
Complete(b) ==
    [result |-> [b.result EXCEPT !.status = "completed",
                                 !.processing_time = b.elapsed],
     stats |-> [b.stats EXCEPT !.files_processed = @ + 1,
                               !.total_processing_time = @ + b.elapsed]]

\* A variant of Fail that records the error but leaves the status as it is.
Fail_KeepsStatus(b, path) ==
    [result |-> [b.result EXCEPT !.error = b.exception,
                                 !.errors = Append(@, ErrorMsg(path, b.exception)),
                                 !.processing_time = b.elapsed],
     stats |-> [b.stats EXCEPT !.files_failed = @ + 1,
                               !.errors = Append(@, ErrorMsg(path, b.exception))]]

\* A variant of Fail that adds the time of the failed file to the total.
Fail_AddsTime(b, path) ==
    [result |-> [b.result EXCEPT !.status = "failed", !.error = b.exception,
                                 !.errors = Append(@, ErrorMsg(path, b.exception)),
                                 !.processing_time = b.elapsed],
     stats |-> [b.stats EXCEPT !.files_failed = @ + 1,
                               !.total_processing_time = @ + b.elapsed,
                               !.errors = Append(@, ErrorMsg(path, b.exception))]]

\* A variant of Fail that counts the failed file without logging its message.
Fail_LogsNothing(b, path) ==
    [result |-> [b.result EXCEPT !.status = "failed", !.error = b.exception,
                                 !.errors = Append(@, ErrorMsg(path, b.exception)),
                                 !.processing_time = b.elapsed],
     stats |-> [b.stats EXCEPT !.files_failed = @ + 1]]

\* The except clause.
Fail(b, path) ==
    [result |-> [b.result EXCEPT !.status = "failed", !.error = b.exception,
                                 !.errors = Append(@, ErrorMsg(path, b.exception)),
                                 !.processing_time = b.elapsed],
     stats |-> [b.stats EXCEPT !.files_failed = @ + 1,
                               !.errors = Append(@, ErrorMsg(path, b.exception))]]

\* A variant of FileOutcome whose except clause re-raises after recording.
FileOutcome_Reraises(path, b) ==
    LET e == IF b.exception = "" THEN Complete(b) ELSE Fail(b, path)
    IN  [result |-> e.result, stats |-> e.stats, db |-> b.db, loader |-> b.loader,
         trace |-> b.trace, relational_failed |-> b.relational_failed,
         raised |-> b.exception # ""]

\* A variant of FileOutcome that counts a failed file as processed too.
FileOutcome_CountsTwice(path, b) ==
    LET e == IF b.exception = "" THEN Complete(b) ELSE Fail(b, path)
    IN  [result |-> e.result,
         stats |-> IF b.exception = "" THEN e.stats
                   ELSE [e.stats EXCEPT !.files_processed = @ + 1],
         db |-> b.db, loader |-> b.loader,
         trace |-> b.trace, relational_failed |-> b.relational_failed,
         raised |-> FALSE]

\* What process_aasx_file returns and leaves behind, b being what the try
\* block did: the block ran to its end, or the except clause handled the
\* exception; the function returns the result in both cases.
FileOutcome(path, b) ==
    LET e == IF b.exception = "" THEN Complete(b) ELSE Fail(b, path)
    IN  [result |-> e.result, stats |-> e.stats, db |-> b.db, loader |-> b.loader,
         trace |-> b.trace, relational_failed |-> b.relational_failed,
         raised |-> FALSE]

ProcessAasxFile(path, env, st, dbv, ld, cfg) ==
    FileOutcome(path,
        RunPhases(path, st, dbv, ld, ExtractPhase(env), TransformPhase(env),
                  LoadPhase(env, dbv, ld, cfg)))

\* Observation of a process_aasx_file execution: where it ran ("self": on the
\* orchestrator, "worker": on the copy a pool worker received, "batch": on the
\* pipeline process_aasx_batch created), its environment and what it returned.
NoFile ==
    [called |-> FALSE, on |-> "self", env |-> BaseEnv, result |-> InitialResult(0),
     trace |-> <<>>, raised |-> FALSE, ctor_ran |-> FALSE,
     relational_failed |-> FALSE]

ObserveFile(on, env, r, ld, cfg) ==
    [called |-> TRUE, on |-> on, env |-> env, result |-> r.result,
     trace |-> r.trace, raised |-> r.raised,
     ctor_ran |-> Constructs(ld, cfg),
     relational_failed |-> r.relational_failed]

(***************************************************************************)
(* Batches: process_aasx_directory (_process_sequential, _process_parallel)*)
(* and process_aasx_batch.  A batch holds the list of files (file i has    *)
(* the path i), the futures collected so far and the results list; of a    *)
(* per-file result the batch keeps the file_path and the status.           *)
(***************************************************************************)
NoBatchOut ==
    [returned |-> FALSE, files_found |-> 0, files_processed |-> 0,
     files_failed |-> 0, nresults |-> 0, has_files_found |-> FALSE,
     has_pipeline_stats |-> FALSE, pipeline_stats |-> InitialStats]

NoBatch ==
    [pc |-> "idle", mode |-> "none", files |-> <<>>, done |-> {},
     results |-> <<>>, raised |-> FALSE, out |-> NoBatchOut,
     stats0 |-> InitialStats, pipe_stats |-> InitialStats, pipe_loader |-> NoLoader,
     pool_faulted |-> {}, ctor_faulted |-> FALSE]

Brief(result) == [file_path |-> result.file_path, status |-> result.status]

\* results.append(self.process_aasx_file(file_path)): an exception of the
\* call leaves the loop and the batch.
CollectResult(results, r) ==
    IF r.raised THEN results ELSE Append(results, Brief(r.result))

\* results.append({'file_path': ..., 'status': 'failed', 'error': ..., 'errors': [...]})
PoolFailure(i) == [file_path |-> i, status |-> "failed"]

\* A variant of CollectFuture without the try/except around future.result():
\* the result of a future that raised is not recorded.
CollectFuture_DropsFailure(results, i, future) ==
    IF future.raised THEN results ELSE Append(results, Brief(future.result))

\* for future in as_completed(...): try: results.append(future.result())
\*                                  except Exception: results.append(<failed>)
CollectFuture(results, i, future) ==
    IF future.raised THEN Append(results, PoolFailure(i))
    ELSE Append(results, Brief(future.result))

CountStatus(results, status) ==
    Cardinality({k \in 1..Len(results) : results[k].status = status})

\* The dictionary process_aasx_directory returns for a non-empty directory.
DirectoryOut(files, results, st) ==
    [returned |-> TRUE, files_found |-> Len(files),
     files_processed |-> CountStatus(results, "completed"),
     files_failed |-> CountStatus(results, "failed"),
     nresults |-> Len(results), has_files_found |-> TRUE,
     has_pipeline_stats |-> TRUE, pipeline_stats |-> st]

\* The dictionary process_aasx_batch returns: no files_found entry; st is the
\* stats of the pipeline created for the batch.
BatchListOut(results, st) ==
    [returned |-> TRUE, files_found |-> 0,
     files_processed |-> CountStatus(results, "completed"),
     files_failed |-> CountStatus(results, "failed"),
     nresults |-> Len(results), has_files_found |-> FALSE,
     has_pipeline_stats |-> TRUE, pipeline_stats |-> st]

\* The dictionary process_aasx_directory returns when the glob finds nothing.
EmptyDirectoryOut == [NoBatchOut EXCEPT !.returned = TRUE, !.has_files_found = TRUE]

\* Directory listings: glob("*.aasx") yields existing files with the suffix.
RECURSIVE ListsOver(_, _)
ListsOver(S, n) ==
    IF n = 0 THEN {<<>>}
    ELSE LET shorter == ListsOver(S, n - 1)
         IN  shorter \cup {Append(l, x) : l \in shorter, x \in S}

DirectoryKinds == {"corrupt", "malformed", "valid"}

\* A step of a batch ends the batch when it raises or handles the last file.
AfterStep(b, i, results, raised, st, poolFault, ctorFault) ==
    LET done == b.done \cup {i}
        last == done = 1..Len(b.files)
    IN  [b EXCEPT !.done = done,
                  !.results = results,
                  !.pool_faulted = IF poolFault THEN @ \cup {i} ELSE @,
                  !.ctor_faulted = @ \/ ctorFault,
                  !.raised = raised,
                  !.pc = IF raised \/ last THEN "done" ELSE "running",
                  !.out = IF ~raised /\ last
                          THEN IF b.mode = "list" THEN BatchListOut(results, st)
                               ELSE DirectoryOut(b.files, results, st)
                          ELSE @]

(***************************************************************************)
(* AASXTransformer (webapp/aasx/aasx_transformer.py).                      *)
(* A Python string is the sequence of its characters, so that strip and    *)
(* replace are computed.  An entity of the extracted data is               *)
(*   falsy       : the entity is None or {} and is dropped by the cleaner  *)
(*   id, id_short: strings ("" when the key is absent)                     *)
(*   description : a string or a dictionary (see CleanDescription)         *)
(*   submodels   : the raw ids an asset references                         *)
(***************************************************************************)
Blank == " "

RECURSIVE LStrip(_)
LStrip(s) == IF s # <<>> /\ Head(s) = Blank THEN LStrip(Tail(s)) ELSE s

RECURSIVE RStrip(_)
RStrip(s) ==
    IF s # <<>> /\ s[Len(s)] = Blank THEN RStrip(SubSeq(s, 1, Len(s) - 1)) ELSE s

\* str.strip()
Strip(s) == RStrip(LStrip(s))

\* str.replace(old, new) for one-character old and new
Replace(s, old, new) == [i \in 1..Len(s) |-> IF s[i] = old THEN new ELSE s[i]]

\* _normalize_id: "" for a falsy value, else strip and replace ' ' and '-' by '_'.
NormalizeId(id_value) ==
    IF id_value = <<>> THEN <<>>
    ELSE Replace(Replace(Strip(id_value), " ", "_"), "-", "_")

\* A description given as a string.
StrDescription(s) ==
    [kind |-> "str", str |-> s, keys |-> {}, text |-> <<>>, langString |-> <<>>,
     en |-> <<>>]

\* A description given as a dictionary with the keys `keys` out of text,
\* langString (a list of {language, text} entries) and en.
DictDescription(keys, text, langString, en) ==
    [kind |-> "dict", str |-> <<>>, keys |-> keys, text |-> text,
     langString |-> langString, en |-> en]

\* _clean_description
CleanDescription(d) ==
    IF d.kind = "str" THEN Strip(d.str)
    ELSE IF "text" \in d.keys THEN Strip(d.text)
    ELSE IF "langString" \in d.keys /\ d.langString # <<>>
         THEN Strip(d.langString[1].text)
    ELSE <<>>

RawEntity(id, id_short, description, submodels) ==
    [falsy |-> FALSE, id |-> id, id_short |-> id_short,
     description |-> description, submodels |-> submodels]

FalsyEntity ==
    [falsy |-> TRUE, id |-> <<>>, id_short |-> <<>>,
     description |-> StrDescription(<<>>), submodels |-> <<>>]

\* A cleaned entity has no qi_metadata key until _enrich_data adds one.
NoQiMetadata == [set |-> FALSE, quality_level |-> "", compliance_status |-> ""]

\* _clean_asset / _clean_submodel: the fields the later steps read.  The
\* references of an asset are copied as they are.
CleanEntity(e) ==
    [id |-> NormalizeId(e.id), id_short |-> e.id_short,
     description |-> CleanDescription(e.description), submodels |-> e.submodels,
     qi_metadata |-> NoQiMetadata]

\* for x in data.get(...): cleaned = self._clean_x(x); if cleaned: append
CleanList(list) ==
    LET kept == SelectSeq(list, LAMBDA e : ~e.falsy)
    IN  [i \in 1..Len(kept) |-> CleanEntity(kept[i])]

\* entity.get(key) is truthy: the cleaned string is not empty.
Truthy(s) == s # <<>>

RECURSIVE RelationshipsFrom(_, _)
\* _extract_relationships, from the i-th cleaned asset on: one record per
\* reference, in the order of the assets and of their references.
RelationshipsFrom(assets, i) ==
    IF i > Len(assets) THEN <<>>
    ELSE [k \in 1..Len(assets[i].submodels) |->
             [source_id |-> assets[i].id, target_id |-> assets[i].submodels[k],
              type |-> "asset_has_submodel"]]
         \o RelationshipsFrom(assets, i + 1)

\* A variant of ExtractRelationships that passes over the assets whose
\* cleaned id is empty.
ExtractRelationships_SkipsUnidentified(assets) ==
    RelationshipsFrom(SelectSeq(assets, LAMBDA a : Truthy(a.id)), 1)

\* _extract_relationships
ExtractRelationships(assets) == RelationshipsFrom(assets, 1)

\* _clean_and_normalize
CleanAndNormalize(data) ==
    LET assets == CleanList(data.assets)
    IN  [assets |-> assets, submodels |-> CleanList(data.submodels),
         relationships |-> ExtractRelationships(assets)]

CountWith(list, key) ==
    Cardinality({i \in 1..Len(list) : Truthy(list[i][key])})

\* Exact fractions for the float arithmetic of the score.
Frac(n, d) == [num |-> n, den |-> d]

FracAdd(x, y) == Frac(x.num * y.den + y.num * x.den, x.den * y.den)

FracHalf(x) == Frac(x.num, 2 * x.den)

FracEq(x, y) == x.num * y.den = y.num * x.den

FracLeq(x, y) == x.num * y.den <= y.num * x.den

\* self.quality_metrics = {} of __init__
NoQualityMetrics ==
    [set |-> FALSE, total_assets |-> 0, total_submodels |-> 0,
     total_relationships |-> 0, assets_with_ids |-> 0, submodels_with_ids |-> 0,
     assets_with_descriptions |-> 0, submodels_with_descriptions |-> 0,
     quality_score |-> Frac(0, 1)]

\* A variant of PerformQualityChecks that keeps counting in the dictionary
\* of the call before instead of starting a new one.
PerformQualityChecks_Accumulates(prev, data) ==
    LET ta == prev.total_assets + Len(data.assets)
        ts == prev.total_submodels + Len(data.submodels)
        ai == prev.assets_with_ids + CountWith(data.assets, "id")
        si == prev.submodels_with_ids + CountWith(data.submodels, "id")
        ad == prev.assets_with_descriptions + CountWith(data.assets, "description")
        sd == prev.submodels_with_descriptions + CountWith(data.submodels, "description")
    IN  [set |-> TRUE, total_assets |-> ta, total_submodels |-> ts,
         total_relationships |-> prev.total_relationships + Len(data.relationships),
         assets_with_ids |-> ai, submodels_with_ids |-> si,
         assets_with_descriptions |-> ad, submodels_with_descriptions |-> sd,
         quality_score |->
            IF ta + ts > 0
            THEN FracHalf(FracAdd(Frac(ai + si, ta + ts), Frac(ad + sd, ta + ts)))
            ELSE Frac(0, 1)]

\* _perform_quality_checks: prev is self.quality_metrics before the call; the
\* method assigns a new dictionary, so prev is not read.
PerformQualityChecks(prev, data) ==
    LET ta == Len(data.assets)
        ts == Len(data.submodels)
        ai == CountWith(data.assets, "id")
        si == CountWith(data.submodels, "id")
        ad == CountWith(data.assets, "description")
        sd == CountWith(data.submodels, "description")
    IN  [set |-> TRUE, total_assets |-> ta, total_submodels |-> ts,
         total_relationships |-> Len(data.relationships),
         assets_with_ids |-> ai, submodels_with_ids |-> si,
         assets_with_descriptions |-> ad, submodels_with_descriptions |-> sd,
         quality_score |->
            IF ta + ts > 0
            THEN FracHalf(FracAdd(Frac(ai + si, ta + ts), Frac(ad + sd, ta + ts)))
            ELSE Frac(0, 1)]

\* score of _determine_quality_level
PresenceScore(e) ==
    (IF Truthy(e.id) THEN 1 ELSE 0) + (IF Truthy(e.description) THEN 1 ELSE 0)
    + (IF Truthy(e.id_short) THEN 1 ELSE 0)

\* A variant of DetermineQualityLevel that asks for all three attributes
\* before it leaves LOW.
DetermineQualityLevel_NoMedium(e) ==
    IF PresenceScore(e) >= 3 THEN "HIGH" ELSE "LOW"

\* _determine_quality_level
DetermineQualityLevel(e) ==
    IF PresenceScore(e) >= 3 THEN "HIGH"
    ELSE IF PresenceScore(e) >= 2 THEN "MEDIUM"
    ELSE "LOW"

\* _check_compliance
CheckCompliance(e) ==
    IF Truthy(e.id) /\ Truthy(e.description) THEN "COMPLIANT"
    ELSE IF Truthy(e.id) THEN "PARTIAL"
    ELSE "NON_COMPLIANT"

EnrichEntity(e) ==
    [e EXCEPT !.qi_metadata =
        [set |-> TRUE, quality_level |-> DetermineQualityLevel(e),
         compliance_status |-> CheckCompliance(e)]]

\* _enrich_data: every asset and submodel gets its qi_metadata.
EnrichData(data) ==
    [data EXCEPT !.assets = [i \in 1..Len(@) |-> EnrichEntity(@[i])],
                 !.submodels = [i \in 1..Len(@) |-> EnrichEntity(@[i])]]

\* quality_checks, enrich_with_external_data: TransformationConfig
TransformationConfigs == [quality_checks : BOOLEAN, enrich_with_external_data : BOOLEAN]

\* AASXTransformer.__init__
NewTransformer(cfg) == [config |-> cfg, quality_metrics |-> NoQualityMetrics]

\* Steps 2 to 4 of transform_aasx_data on the cleaned data; the output
\* carries self.quality_metrics as it is after step 2.
TransformSteps(tr, cleaned, metrics) ==
    [data |-> IF tr.config.enrich_with_external_data THEN EnrichData(cleaned)
              ELSE cleaned,
     quality_metrics |-> IF tr.config.quality_checks THEN metrics
                         ELSE tr.quality_metrics,
     raised |-> FALSE]

\* transform_aasx_data
TransformData(tr, input) ==
    TransformSteps(tr, CleanAndNormalize(input),
        PerformQualityChecks(tr.quality_metrics, CleanAndNormalize(input)))

(***************************************************************************)
(* Extracted data given to the Transformer: one asset for each combination *)
(* of present and absent id, description and id_short, over the forms an   *)
(* id and a description can take, and an entity the cleaner drops.         *)
(***************************************************************************)
Txt(c) == <<c>>

LangEntry(language, text) == [language |-> language, text |-> text]

RawAssets ==
    {RawEntity(<<"a">>, Txt("s"), StrDescription(<<" ", "x", " ">>), <<<<"s", "1">>>>),
     RawEntity(<<"a", " ", "b">>, <<>>, DictDescription({"text"}, Txt("x"), <<>>, <<>>),
               <<<<"s", "1">>, <<"s", " ", "2">>>>),
     RawEntity(<<"a", "-", "b">>, Txt("s"), StrDescription(<<" ">>), <<<<"s", " ", "2">>>>),
     RawEntity(<<" ", "a", " ">>, <<>>, DictDescription({"en"}, <<>>, <<>>, Txt("x")), <<>>),
     RawEntity(<<>>, Txt("s"),
               DictDescription({"langString"}, <<>>, <<LangEntry("de", Txt("y"))>>, <<>>),
               <<<<"s", "1">>, <<"s", "1">>>>),
     RawEntity(<<" ">>, <<>>, StrDescription(Txt("x")), <<>>),
     RawEntity(<<>>, Txt("s"), DictDescription({"langString"}, <<>>, <<>>, <<>>), <<>>),
     RawEntity(<<>>, <<>>, StrDescription(<<>>), <<<<"s", "1">>>>),
     FalsyEntity}

RawSubmodels ==
    {RawEntity(<<"s", "1">>, Txt("s"), StrDescription(Txt("x")), <<>>),
     RawEntity(<<"s", " ", "2">>, <<>>, StrDescription(<<>>), <<>>),
     FalsyEntity}

EmptyInput == [assets |-> <<>>, submodels |-> <<>>]

RawInputs ==
    [assets : ListsOver(RawAssets, MaxAssets),
     submodels : ListsOver(RawSubmodels, MaxSubmodels)]

\* What an earlier call on the same Transformer instance was given.
EarlierInputs ==
    {EmptyInput,
     [assets |-> <<RawEntity(<<"a">>, Txt("s"), StrDescription(Txt("x")), <<>>)>>,
      submodels |-> <<RawEntity(<<"s", "1">>, <<>>, StrDescription(<<>>), <<>>)>>],
     [assets |-> <<RawEntity(<<>>, <<>>, StrDescription(<<>>), <<<<"s", "1">>>>)>>,
      submodels |-> <<>>]}

\* Observation of a transform_aasx_data call: its input, whether the
\* instance had been used before, and what it returned.
NoTransform ==
    [called |-> FALSE, input |-> EmptyInput, used_before |-> FALSE,
     data |-> CleanAndNormalize(EmptyInput), quality_metrics |-> NoQualityMetrics,
     raised |-> FALSE]

ObserveTransform(input, o, n) ==
    [called |-> TRUE, input |-> input, used_before |-> n > 0,
     data |-> o.data, quality_metrics |-> o.quality_metrics, raised |-> o.raised]

\* The Transformer is not part of the behaviours of SpecLoad and Spec, where
\* the record it delivers is chosen by the environment.
TransformerUnused ==
    /\ transformer = NewTransformer([quality_checks |-> TRUE,
                                     enrich_with_external_data |-> FALSE])
    /\ tin = EmptyInput
    /\ tearlier = EmptyInput
    /\ tout = NoTransform
    /\ ntransforms = 0

StatsKeys == {"assets_count", "submodels_count", "documents_count", "relationships_count"}

NoStats ==
    [called |-> FALSE, tables |-> FALSE, store |-> RowCounts(EmptyDb),
     keys |-> {}, counts |-> RowCounts(EmptyDb)]

\* get_database_stats: sqlite3.connect creates the file when it is missing;
\* the first SELECT COUNT(*) raises when the tables do not exist, the except
\* clause logs, and the dictionary is returned as it is, without a key.
GetDatabaseStats(dbv) ==
    [db |-> [dbv EXCEPT !.exists = TRUE],
     keys |-> IF dbv.tables THEN StatsKeys ELSE {},
     counts |-> RowCounts(dbv)]

\* Observation of a get_database_stats call: the store it was made on, the
\* keys of the dictionary returned and the values under those keys.
ObserveStats(dbv, o) ==
    [called |-> TRUE, tables |-> dbv.tables, store |-> RowCounts(dbv),
     keys |-> o.keys, counts |-> o.counts]

(***************************************************************************)
(* The queries of the orchestrator: get_pipeline_stats, validate_pipeline, *)
(* export_pipeline_report and create_rag_ready_dataset.  An output path is *)
(* a file name in the working directory or in a directory that does not    *)
(* exist, where open(path, 'w') raises FileNotFoundError.                  *)
(***************************************************************************)
OutputPaths == {"rag.json", "nodir/rag.json"}

Writable(path) == path = "rag.json"

\* get_pipeline_stats: a copy of self.stats with two keys added; self.stats
\* is left as it is.
GetPipelineStats_ResetsOnRead(st) == [stats |-> InitialStats, returned |-> st]

GetPipelineStats(st) == [stats |-> st, returned |-> st]

\* validate_pipeline: the three components are present.
ValidatePipeline(st) == [stats |-> st, pipeline_valid |-> TRUE, errors |-> <<>>]

\* export_pipeline_report: the report is built from the two queries above
\* and written to output_path; open's exception is not caught.
ExportPipelineReport(st, path) ==
    LET s == GetPipelineStats(st)
        v == ValidatePipeline(s.stats)
    IN  [stats |-> v.stats, raised |-> ~Writable(path), wrote |-> Writable(path),
         returned |-> IF Writable(path) THEN path ELSE ""]

\* AASXLoader.export_for_rag: reads the assets and submodels tables, writes
\* the file and returns output_path; every exception is logged and re-raised.
ExportForRag(dbv, path) ==
    LET ok == dbv.tables /\ Writable(path)
    IN  [raised |-> ~ok, wrote |-> ok, returned |-> IF ok THEN path ELSE ""]

\* A variant of create_rag_ready_dataset without the check for an empty store.
CreateRagReadyDataset_ExportsEmpty(dbv, path, ctor_fault) ==
    LET s == GetDatabaseStats(dbv)
        e == ExportForRag(s.db, path)
    IN  IF ctor_fault
        THEN [db |-> dbv, raised |-> TRUE, delegated |-> FALSE, wrote |-> FALSE,
              returned |-> ""]
        ELSE [db |-> s.db, raised |-> e.raised, delegated |-> TRUE,
              wrote |-> e.wrote, returned |-> e.returned]

\* create_rag_ready_dataset: a Loader is constructed, its statistics are
\* read (db_stats.get(key, 0): a missing key counts as 0), ValueError is
\* raised when they show no asset and no submodel, and export_for_rag is
\* called otherwise; the except clause logs and re-raises.
CreateRagReadyDataset(dbv, path, ctor_fault) ==
    LET s == GetDatabaseStats(dbv)
        get(key, v) == IF key \in s.keys THEN v ELSE 0
        none == /\ get("assets_count", s.counts.assets) = 0
                /\ get("submodels_count", s.counts.submodels) = 0
        e == ExportForRag(s.db, path)
    IN  IF ctor_fault
        THEN [db |-> dbv, raised |-> TRUE, delegated |-> FALSE, wrote |-> FALSE,
              returned |-> ""]
        ELSE IF none
        THEN [db |-> s.db, raised |-> TRUE, delegated |-> FALSE, wrote |-> FALSE,
              returned |-> ""]
        ELSE [db |-> s.db, raised |-> e.raised, delegated |-> TRUE,
              wrote |-> e.wrote, returned |-> e.returned]

\* Observation of a query: the call, its output path, whether the Loader's
\* constructor raised, whether the store held no asset and no submodel when
\* the call was made, and what the call did.
NoQuery ==
    [called |-> FALSE, op |-> "", path |-> "", ctor_fault |-> FALSE,
     empty |-> TRUE, raised |-> FALSE, wrote |-> FALSE, delegated |-> FALSE,
     returned |-> ""]

ObserveQuery(op, path, ctor_fault, dbv, o) ==
    [called |-> TRUE, op |-> op, path |-> path, ctor_fault |-> ctor_fault,
     empty |-> RowCounts(dbv).assets = 0 /\ RowCounts(dbv).submodels = 0,
     raised |-> o.raised, wrote |-> o.wrote, delegated |-> o.delegated,
     returned |-> o.returned]

\* TransformationConfig.output_format is 'json' by default; no file has been
\* exported.
NoPersist == [output_format |-> "json", clock |-> 0, exports |-> <<>>]

\* TransformationConfig.output_format: the keys of format_methods.
OutputFormats == {"json", "xml", "csv", "yaml", "graph", "flattened"}

\* _transform_to_format, as the Loader reads its result.  json and yaml
\* carry the cleaned data under 'data'; csv carries a dict with the assets
\* and submodels and an empty documents list; flattened carries a list of
\* the assets and submodels; xml (xml_string) and graph (nodes, edges) have
\* no 'data' key.
TransformToFormat(output_format, cleaned) ==
    CASE output_format \in {"json", "yaml"} -> cleaned
      [] output_format = "csv" ->
            MakeRecord(cleaned.assets, cleaned.submodels, <<>>, NoRelationships)
      [] output_format = "flattened" ->
            [data_kind |-> "list", assets |-> cleaned.assets,
             submodels |-> cleaned.submodels, documents |-> <<>>,
             relationships |-> NoRelationships]
      [] output_format \in {"xml", "graph"} -> EmptyRecord("absent")
      [] OTHER -> cleaned

\* The paths _export_to_files builds for the files it lists:
\* output_dir / aasx_data_<timestamp><suffix>, the timestamp being
\* datetime.now() formatted to the second.
ExportedPaths(second, files) ==
    {[timestamp |-> second, suffix |-> files[i]] : i \in 1..Len(files)}

(***************************************************************************)
(* SpecLoad: one Loader used directly (as in test_aasx_loader.py).         *)
(***************************************************************************)
InitLoad ==
    /\ TransformerUnused
    /\ ExtractorUnused
    /\ statsOut = NoStats
    /\ queryOut = NoQuery
    /\ persist = NoPersist
    /\ config \in {c \in Configs : ~c.separate_file_outputs /\ ~c.parallel_processing}
    /\ db \in InitialDbs
    /\ loader = NewLoader(config)
    /\ loadOut = NoLoad
    /\ nloads = 0
    /\ stats = InitialStats
    /\ fileOut = NoFile
    /\ batch = NoBatch
    /\ ncalls = 0
    /\ nruns = 0

\* loader.load_aasx_data(R)
LoadCall ==
    /\ nloads < MaxLoads
    /\ \E R \in Records : \E f \in LoadFaults(R, db, loader, config) :
          \E o \in {LoadAasxData(R, db, loader, config, f)} :
              /\ db' = o.db
              /\ loader' = o.loader
              /\ loadOut' = Observe(R, o, db, loadOut)
    /\ nloads' = nloads + 1
    /\ UNCHANGED pvars
    /\ UNCHANGED tvars
    /\ UNCHANGED xvars
    /\ UNCHANGED statsOut
    /\ UNCHANGED ovars

\* loader = AASXLoader(config): the caller replaces its loader by a new instance.
ConstructLoader ==
    /\ loader' = NewLoader(config)
    /\ UNCHANGED <<db, loadOut, nloads>>
    /\ UNCHANGED pvars
    /\ UNCHANGED tvars
    /\ UNCHANGED xvars
    /\ UNCHANGED statsOut
    /\ UNCHANGED ovars

\* loader.get_database_stats()
StatsCall ==
    /\ loader.created
    /\ \E o \in {GetDatabaseStats(db)} :
          /\ db' = o.db
          /\ statsOut' = ObserveStats(db, o)
    /\ UNCHANGED <<loader, loadOut, nloads>>
    /\ UNCHANGED pvars
    /\ UNCHANGED tvars
    /\ UNCHANGED xvars
    /\ UNCHANGED ovars

NextLoad == LoadCall \/ ConstructLoader \/ StatsCall

SpecLoad == InitLoad /\ [][NextLoad]_vars

(***************************************************************************)
(* Spec: one Orchestrator (AASXETLPipeline) and its callers.               *)
(***************************************************************************)
Init ==
    /\ TransformerUnused
    /\ ExtractorUnused
    /\ statsOut = NoStats
    /\ queryOut = NoQuery
    /\ persist = NoPersist
    /\ config \in {c \in Configs : ~c.backup_existing /\ ~c.embeddings}
    /\ db = EmptyDb
    /\ loader = NoLoader
    /\ loadOut = NoLoad
    /\ nloads = 0
    /\ stats = InitialStats
    /\ fileOut = NoFile
    /\ batch = NoBatch
    /\ ncalls = 0
    /\ nruns = 0

\* No batch is running: the orchestrator is free for a direct call.
Idle == batch.pc # "running"

\* A behaviour holds at most one batch call, with direct calls before and after.
NoBatchYet == batch.pc = "idle"

\* pipeline.process_aasx_file(path)
ProcessFileCall ==
    /\ Idle
    /\ nruns < MaxRuns
    /\ \E kind \in FileKinds : \E env \in EnvsOf(kind) :
          \E r \in {ProcessAasxFile(0, env, stats, db, loader, config)} :
              /\ stats' = r.stats
              /\ db' = r.db
              /\ loader' = r.loader
              /\ fileOut' = ObserveFile("self", env, r, loader, config)
    /\ ncalls' = ncalls + 1
    /\ nruns' = nruns + 1
    /\ UNCHANGED <<config, batch, loadOut, nloads>>
    /\ UNCHANGED tvars
    /\ UNCHANGED xvars
    /\ UNCHANGED statsOut
    /\ UNCHANGED ovars

\* pipeline.reset_stats()
ResetStats ==
    /\ Idle
    /\ stats' = InitialStats
    /\ ncalls' = 0
    /\ UNCHANGED <<config, db, loader, fileOut, batch, nruns, loadOut, nloads>>
    /\ UNCHANGED tvars
    /\ UNCHANGED xvars
    /\ UNCHANGED statsOut
    /\ UNCHANGED ovars

\* pipeline.process_aasx_directory(dir) up to the first file: the directory
\* is missing (ValueError), holds no package (empty result) or holds files.
StartDirectory ==
    /\ NoBatchYet
    /\ \E exists \in BOOLEAN : \E files \in ListsOver(DirectoryKinds, MaxFiles) :
          /\ nruns + Len(files) <= MaxRuns
          /\ ~exists => files = <<>>
          /\ batch' =
               IF ~exists
               THEN [NoBatch EXCEPT !.pc = "done", !.mode = "directory", !.raised = TRUE]
               ELSE IF files = <<>>
               THEN [NoBatch EXCEPT !.pc = "done", !.mode = "directory",
                                    !.out = EmptyDirectoryOut]
               ELSE [NoBatch EXCEPT
                        !.pc = "running",
                        !.mode = IF config.parallel_processing
                                 THEN "parallel" ELSE "sequential",
                        !.files = files, !.stats0 = stats]
    /\ UNCHANGED <<config, stats, db, loader, fileOut, ncalls, nruns, loadOut, nloads>>
    /\ UNCHANGED tvars
    /\ UNCHANGED xvars
    /\ UNCHANGED statsOut
    /\ UNCHANGED ovars

\* _process_sequential: the next file of the list, on the orchestrator itself.
SequentialStep ==
    /\ batch.pc = "running" /\ batch.mode = "sequential"
    /\ LET i == Len(batch.results) + 1
       IN  \E env \in EnvsOf(batch.files[i]) :
             \E r \in {ProcessAasxFile(i, env, stats, db, loader, config)} :
                 /\ stats' = r.stats
                 /\ db' = r.db
                 /\ loader' = r.loader
                 /\ fileOut' = ObserveFile("self", env, r, loader, config)
                 /\ batch' = AfterStep(batch, i, CollectResult(batch.results, r),
                                       r.raised, r.stats, FALSE,
                                       CtorFaults(env, loader, config))
    /\ ncalls' = ncalls + 1
    /\ nruns' = nruns + 1
    /\ UNCHANGED <<config, loadOut, nloads>>
    /\ UNCHANGED tvars
    /\ UNCHANGED xvars
    /\ UNCHANGED statsOut
    /\ UNCHANGED ovars

\* _process_parallel: the future of some file completes.  The worker ran
\* process_aasx_file on the copy of the orchestrator pickled with the task
\* (stats and loader as they were at submission); the database file is the
\* shared one.  A future raises when the pool could not run the task.
ParallelStep ==
    /\ batch.pc = "running" /\ batch.mode = "parallel"
    /\ \E i \in (1..Len(batch.files)) \ batch.done :
          \/ /\ batch' = AfterStep(batch, i,
                             CollectFuture(batch.results, i,
                                  [raised |-> TRUE, result |-> InitialResult(i)]),
                             FALSE, stats, TRUE, FALSE)
             /\ UNCHANGED <<db, fileOut, nruns>>
          \/ \E env \in EnvsOf(batch.files[i]) :
                \E r \in {ProcessAasxFile(i, env, batch.stats0, db, loader, config)} :
                    /\ db' = r.db
                    /\ fileOut' = ObserveFile("worker", env, r, loader, config)
                    /\ batch' = AfterStep(batch, i,
                                    CollectFuture(batch.results, i,
                                         [raised |-> r.raised, result |-> r.result]),
                                    FALSE, stats, r.raised,
                                    CtorFaults(env, loader, config))
                    /\ nruns' = nruns + 1
    /\ UNCHANGED <<config, stats, loader, ncalls, loadOut, nloads>>
    /\ UNCHANGED tvars
    /\ UNCHANGED xvars
    /\ UNCHANGED statsOut
    /\ UNCHANGED ovars

\* process_aasx_batch(file_paths) up to the first file: a new pipeline.
StartBatchList ==
    /\ NoBatchYet
    /\ \E files \in ListsOver(FileKinds, MaxFiles) :
          /\ nruns + Len(files) <= MaxRuns
          /\ batch' =
               IF files = <<>>
               THEN [NoBatch EXCEPT !.pc = "done", !.mode = "list",
                        !.out = BatchListOut(<<>>, InitialStats)]
               ELSE [NoBatch EXCEPT !.pc = "running", !.mode = "list",
                                    !.files = files, !.stats0 = stats]
    /\ UNCHANGED <<config, stats, db, loader, fileOut, ncalls, nruns, loadOut, nloads>>
    /\ UNCHANGED tvars
    /\ UNCHANGED xvars
    /\ UNCHANGED statsOut
    /\ UNCHANGED ovars

\* process_aasx_batch: the next file of the list, on the batch's own pipeline.
ListStep ==
    /\ batch.pc = "running" /\ batch.mode = "list"
    /\ LET i == Len(batch.results) + 1
       IN  \E env \in EnvsOf(batch.files[i]) :
             \E r \in {ProcessAasxFile(i, env, batch.pipe_stats, db,
                                        batch.pipe_loader, config)} :
                 /\ db' = r.db
                 /\ fileOut' = ObserveFile("batch", env, r, batch.pipe_loader, config)
                 /\ batch' = AfterStep([batch EXCEPT !.pipe_stats = r.stats,
                                                     !.pipe_loader = r.loader],
                                       i, CollectResult(batch.results, r),
                                       r.raised, r.stats, FALSE,
                                       CtorFaults(env, batch.pipe_loader, config))
    /\ nruns' = nruns + 1
    /\ UNCHANGED <<config, stats, loader, ncalls, loadOut, nloads>>
    /\ UNCHANGED tvars
    /\ UNCHANGED xvars
    /\ UNCHANGED statsOut
    /\ UNCHANGED ovars

Next ==
    \/ ProcessFileCall
    \/ ResetStats
    \/ StartDirectory
    \/ SequentialStep
    \/ ParallelStep
    \/ StartBatchList
    \/ ListStep

Spec == Init /\ [][Next]_vars

(***************************************************************************)
(* Properties of process_aasx_file.                                        *)
(***************************************************************************)
AllPhasesSucceeded(r) ==
    r.extract_result.success /\ r.transform_result.success /\ r.load_result.success

FirstFailure(r) ==
    IF ~r.extract_result.success THEN "Extraction failed"
    ELSE IF ~r.transform_result.success THEN "Transformation failed"
    ELSE "Loading failed"

\* C1: every process_aasx_file call returns a terminal status: 'completed'
\* exactly when Extract, Transform and Load all reported success, 'failed'
\* otherwise; 'processing' is never returned.
C1_TerminalStatus ==
    fileOut.called =>
        /\ fileOut.result.status \in {"completed", "failed"}
        /\ fileOut.result.status = "completed" <=> AllPhasesSucceeded(fileOut.result)

\* A call whose Extract and Transform succeeded and whose Load reported failure.
C1_Witness ==
    /\ fileOut.called
    /\ fileOut.result.extract_result.success
    /\ fileOut.result.transform_result.success
    /\ fileOut.result.load_result.set
    /\ ~fileOut.result.load_result.success
    /\ fileOut.result.status = "failed"

\* C2: a failed phase stops the file and nothing is retried: after a failed
\* Extract neither Transform nor Load runs and both results stay null, after
\* a failed Transform Load does not run and its result stays null; no phase
\* runs twice, and a failed result carries exactly one error, that of the
\* first failing phase.
C2_ShortCircuit ==
    fileOut.called =>
        LET r == fileOut.result
            t == fileOut.trace
        IN  /\ ~r.extract_result.success =>
                  /\ t = <<"extract">>
                  /\ r.transform_result = NullPhase
                  /\ r.load_result = NullLoadPhase
            /\ (r.extract_result.success /\ ~r.transform_result.success) =>
                  /\ t = <<"extract", "transform">>
                  /\ r.load_result = NullLoadPhase
            /\ \A i, j \in 1..Len(t) : t[i] = t[j] => i = j
            /\ r.status = "failed" =>
                  /\ Len(r.errors) = 1
                  /\ r.errors[1].cause = FirstFailure(r)
                  /\ r.error = FirstFailure(r)
            /\ r.status = "completed" => r.errors = <<>>

\* A call whose Transform phase failed after a successful Extract.
C2_Witness ==
    /\ fileOut.called
    /\ fileOut.result.extract_result.success
    /\ fileOut.result.transform_result.set
    /\ ~fileOut.result.transform_result.success
    /\ fileOut.trace = <<"extract", "transform">>

Returned == batch.pc = "done" /\ batch.out.returned

IsDirectoryRun == batch.mode \in {"sequential", "parallel"}

CountKind(files, kinds) ==
    Cardinality({k \in 1..Len(files) : files[k] \in kinds})

\* C4: a batch (directory run in either mode, or process_aasx_batch) returns
\* as many results as it had input files, files_processed + files_failed is
\* that number, and every result is 'completed' or 'failed'.
C4_BatchCounts ==
    Returned =>
        /\ batch.out.nresults = Len(batch.files)
        /\ batch.out.has_files_found => batch.out.files_found = Len(batch.files)
        /\ batch.out.files_processed + batch.out.files_failed = Len(batch.files)
        /\ \A k \in 1..Len(batch.results) :
              batch.results[k].status \in {"completed", "failed"}

\* A process_aasx_batch over two files, one of which failed.
C4_Witness ==
    /\ Returned
    /\ batch.mode = "list"
    /\ Len(batch.files) = 2
    /\ batch.out.files_processed = 1
    /\ batch.out.files_failed = 1

\* C5: one bad file never aborts a directory run: the run does not raise, the
\* good files are counted in files_processed and the bad ones in files_failed
\* (when the pool and the loader construction did not fail), and a file whose
\* future raised gets a 'failed' result while all other results are collected.
C5_FaultContainment ==
    (batch.pc = "done" /\ IsDirectoryRun) =>
        /\ ~batch.raised
        /\ batch.out.returned
        /\ (batch.pool_faulted = {} /\ ~batch.ctor_faulted) =>
              /\ batch.out.files_processed = CountKind(batch.files, {"valid"})
              /\ batch.out.files_failed = CountKind(batch.files, {"corrupt", "malformed"})
        /\ \A i \in batch.pool_faulted :
              \E k \in 1..Len(batch.results) : batch.results[k] = PoolFailure(i)
        /\ Len(batch.results) = Len(batch.files)

\* A parallel run over a good and an unreadable file, without pool faults.
C5_Witness ==
    /\ batch.pc = "done"
    /\ batch.mode = "parallel"
    /\ batch.pool_faulted = {}
    /\ CountKind(batch.files, {"valid"}) = 1
    /\ CountKind(batch.files, {"corrupt"}) = 1
    /\ batch.out.files_processed = 1
    /\ batch.out.files_failed = 1

\* C6: a directory run returns exactly one result for each file found,
\* matched by file_path: none dropped, none twice, in any completion order.
C6_OneResultPerFile ==
    (batch.pc = "done" /\ IsDirectoryRun) =>
        \A i \in 1..Len(batch.files) :
            Cardinality({k \in 1..Len(batch.results) :
                            batch.results[k].file_path = i}) = 1

\* A parallel run whose second file completed first and whose first file's
\* future raised.
C6_Witness ==
    /\ batch.pc = "done"
    /\ batch.mode = "parallel"
    /\ Len(batch.results) = 2
    /\ batch.results[1].file_path = 2
    /\ batch.pool_faulted = {1}

\* C7: each process_aasx_file call on the orchestrator adds one to exactly one
\* of files_processed (result 'completed') and files_failed (result
\* 'failed'), so that their sum is the number of calls since construction
\* or the last reset.
C7_CountersStep ==
    /\ [][ncalls' = ncalls + 1 =>
            /\ fileOut'.result.status = "completed" =>
                  /\ stats'.files_processed = stats.files_processed + 1
                  /\ stats'.files_failed = stats.files_failed
            /\ fileOut'.result.status = "failed" =>
                  /\ stats'.files_failed = stats.files_failed + 1
                  /\ stats'.files_processed = stats.files_processed
            /\ fileOut'.result.status \in {"completed", "failed"}]_vars
    /\ [](stats.files_processed + stats.files_failed = ncalls)

\* Two calls, one completed and one failed.
C7_Witness ==
    /\ ncalls = 2
    /\ stats.files_processed = 1
    /\ stats.files_failed = 1

\* C8: after a directory run, in parallel as in sequential mode, the
\* orchestrator's files_processed and files_failed have grown by the batch's
\* counts, and the pipeline_stats of the batch result show them.
C8_StatsRolledIn ==
    (Returned /\ IsDirectoryRun) =>
        /\ batch.out.pipeline_stats.files_processed =
              batch.stats0.files_processed + batch.out.files_processed
        /\ batch.out.pipeline_stats.files_failed =
              batch.stats0.files_failed + batch.out.files_failed

(***************************************************************************)
(* Properties of load_aasx_data.                                           *)
(***************************************************************************)
\* C9: loading a record a second time leaves the row count of each of the
\* four tables as it was after the first load.
C9_IdempotentUpsert ==
    loadOut.repeated => loadOut.after = loadOut.before

\* C10: load_aasx_data never raises and its steps are fault-contained: the
\* relational load and the vector load run whatever happened in the steps
\* before them, and a result with the four fields is returned for every
\* input, also one without a data section.
C10_LoadContained ==
    loadOut.called =>
        /\ ~loadOut.raised
        /\ loadOut.trace = <<"export", "database", "vector">>
        /\ DOMAIN loadOut.result =
              {"files_exported", "database_records", "vector_embeddings", "errors"}

\* A load in which the file export and the relational load both hit a fault.
C10_Witness ==
    /\ loadOut.called
    /\ loadOut.failed.export
    /\ loadOut.failed.database
    /\ loadOut.trace = <<"export", "database", "vector">>

\* C11: every failed step of a load is recorded: when the file export, the
\* relational load or the vector load hit a fault, the errors of the returned
\* result hold a message (errors is empty only when no step failed).
C11_FailuresRecorded ==
    loadOut.called =>
        ((loadOut.failed.export \/ loadOut.failed.database \/ loadOut.failed.vector)
            => loadOut.result.errors # <<>>)

\* C12: with backup_existing, one Loader instance copies the database file to
\* a backup at most once, and only before its first write to the database:
\* once the instance has made a backup or has written, no load of that
\* instance makes a backup.
C12_BackupBeforeFirstWrite ==
    [][/\ db'.backups <= db.backups + 1
       /\ (loader.backup_created \/ loader.wrote) => db'.backups = db.backups]_vars

(***************************************************************************)
(* SpecTransform: one Transformer given the extracted data tin, possibly   *)
(* after an earlier call with the data tearlier on the same instance.      *)
(***************************************************************************)
PipelineUnused ==
    /\ config = [backup_existing |-> FALSE, embeddings |-> FALSE,
                 separate_file_outputs |-> FALSE, parallel_processing |-> FALSE]
    /\ db = EmptyDb
    /\ loader = NoLoader
    /\ loadOut = NoLoad
    /\ nloads = 0
    /\ stats = InitialStats
    /\ fileOut = NoFile
    /\ batch = NoBatch
    /\ ncalls = 0
    /\ nruns = 0
    /\ statsOut = NoStats
    /\ queryOut = NoQuery
    /\ persist = NoPersist

InitTransform ==
    /\ PipelineUnused
    /\ ExtractorUnused
    /\ transformer \in {NewTransformer(c) : c \in TransformationConfigs}
    /\ tin \in RawInputs
    /\ tearlier \in EarlierInputs
    /\ tout = NoTransform
    /\ ntransforms = 0

\* The instance after a call: only self.quality_metrics changes.
TransformerAfter(tr, o) == [tr EXCEPT !.quality_metrics = o.quality_metrics]

\* transformer.transform_aasx_data(tearlier): an earlier use of the instance
TransformEarlier ==
    /\ ntransforms < MaxTransforms
    /\ \E o \in {TransformData(transformer, tearlier)} :
          /\ transformer' = TransformerAfter(transformer, o)
          /\ tout' = ObserveTransform(tearlier, o, ntransforms)
    /\ ntransforms' = ntransforms + 1
    /\ UNCHANGED <<tin, tearlier>>
    /\ UNCHANGED lvars
    /\ UNCHANGED pvars
    /\ UNCHANGED xvars
    /\ UNCHANGED statsOut
    /\ UNCHANGED ovars

\* transformer.transform_aasx_data(tin)
TransformCall ==
    /\ ntransforms < MaxTransforms
    /\ \E o \in {TransformData(transformer, tin)} :
          /\ transformer' = TransformerAfter(transformer, o)
          /\ tout' = ObserveTransform(tin, o, ntransforms)
    /\ ntransforms' = ntransforms + 1
    /\ UNCHANGED <<tin, tearlier>>
    /\ UNCHANGED lvars
    /\ UNCHANGED pvars
    /\ UNCHANGED xvars
    /\ UNCHANGED statsOut
    /\ UNCHANGED ovars

NextTransform == TransformEarlier \/ TransformCall

SpecTransform == InitTransform /\ [][NextTransform]_vars

(***************************************************************************)
(* Claims on the Transformer (SpecTransform).                              *)
(***************************************************************************)
\* The cleaned assets and submodels of the last call, as one list.
Entities == tout.data.assets \o tout.data.submodels

QualityChecked == tout.called /\ transformer.config.quality_checks

HasIdAndDescription(e) == e.id # <<>> /\ e.description # <<>>

\* C13: with quality checks enabled, quality_score lies in [0,1] and equals
\* 1.0 exactly when every cleaned asset and submodel has a non-empty id and
\* a non-empty description, an input without assets and submodels included.
C13_ScoreBounds ==
    QualityChecked =>
        LET q == tout.quality_metrics.quality_score
        IN  /\ FracLeq(Frac(0, 1), q)
            /\ FracLeq(q, Frac(1, 1))
            /\ FracEq(q, Frac(1, 1))
                   <=> \A i \in 1..Len(Entities) : HasIdAndDescription(Entities[i])

\* The orders in which a list of n elements can be given.
Orders(n) == {p \in [1..n -> 1..n] : \A i, j \in 1..n : p[i] = p[j] => i = j}

\* The inputs that hold the entities of `input` in another order.
Reorderings(input) ==
    {[assets |-> [i \in 1..Len(input.assets) |-> input.assets[p[i]]],
      submodels |-> [i \in 1..Len(input.submodels) |-> input.submodels[r[i]]]] :
        p \in Orders(Len(input.assets)), r \in Orders(Len(input.submodels))}

\* C14: quality_score is the mean of the fraction of cleaned entities with an
\* id and the fraction with a description, 2 * N * quality_score =
\* ids_present + descriptions_present for N > 0 entities; whatever the
\* instance did before, the score is the one a new instance gives the same
\* entities in any order.
C14_ScoreIsMean ==
    QualityChecked =>
        LET q == tout.quality_metrics.quality_score
            N == Len(Entities)
            ids == Cardinality({i \in 1..N : Entities[i].id # <<>>})
            descriptions == Cardinality({i \in 1..N : Entities[i].description # <<>>})
        IN  /\ N > 0 => 2 * N * q.num = (ids + descriptions) * q.den
            /\ \A other \in Reorderings(tout.input) :
                  FracEq(TransformData(NewTransformer(transformer.config), other)
                            .quality_metrics.quality_score, q)

\* A second call on an instance, after a call that counted other entities,
\* on two assets of which one has neither id nor description.
C14_Witness ==
    /\ QualityChecked
    /\ tout.used_before
    /\ tout.input = tin
    /\ tin # tearlier
    /\ tearlier # EmptyInput
    /\ Len(tout.data.assets) = 2
    /\ tout.data.assets[1].id = <<>> /\ tout.data.assets[1].description = <<>>
    /\ tout.data.assets[2].id # <<>>

\* The relationship records with source_id x.
RecordsOf(x) ==
    {k \in 1..Len(tout.data.relationships) :
        /\ tout.data.relationships[k].type = "asset_has_submodel"
        /\ tout.data.relationships[k].source_id = x}

RECURSIVE ReferencesBefore(_, _)
\* The number of references of the assets before the i-th.
ReferencesBefore(assets, i) ==
    IF i <= 1 THEN 0
    ELSE ReferencesBefore(assets, i - 1) + Len(assets[i - 1].submodels)

\* C15 as stated: every asset A with n references has exactly n
\* asset_has_submodel records whose source_id is A's id.
C15_ExactlyNPerAsset ==
    tout.called =>
        \A i \in 1..Len(tout.data.assets) :
            Cardinality(RecordsOf(tout.data.assets[i].id))
                = Len(tout.data.assets[i].submodels)

\* C15, amended: the relationships are one asset_has_submodel record per
\* reference of every asset of the input, asset after asset, with source_id
\* the cleaned id of the asset and target_id the reference as given; the
\* records with one source_id are as many as the references of all the
\* assets that share this id, so exactly n for an asset whose cleaned id no
\* other asset has, and none come from an asset without references.
C15_OneRecordPerReference ==
    tout.called =>
        LET assets == tout.data.assets
            rels == tout.data.relationships
            sharing(i) == {j \in 1..Len(assets) : assets[j].id = assets[i].id}
        IN  /\ Len(rels) = ReferencesBefore(tout.input.assets, Len(tout.input.assets) + 1)
            /\ Len(rels) = ReferencesBefore(assets, Len(assets) + 1)
            /\ \A i \in 1..Len(assets) : \A k \in 1..Len(assets[i].submodels) :
                  rels[ReferencesBefore(assets, i) + k]
                      = [source_id |-> assets[i].id, target_id |-> assets[i].submodels[k],
                         type |-> "asset_has_submodel"]
            /\ \A i \in 1..Len(assets) :
                  /\ sharing(i) = {i}
                        => Cardinality(RecordsOf(assets[i].id)) = Len(assets[i].submodels)
                  /\ Cardinality(RecordsOf(assets[i].id)) >= Len(assets[i].submodels)
                  /\ (\A j \in sharing(i) : assets[j].submodels = <<>>)
                        => RecordsOf(assets[i].id) = {}

\* Two assets with references whose different ids are cleaned to the same
\* id, and a reference given twice.
C15_Witness ==
    /\ tout.called
    /\ Len(tout.data.assets) = 2
    /\ tout.input.assets[1].id # tout.input.assets[2].id
    /\ tout.data.assets[1].id = tout.data.assets[2].id
    /\ tout.data.assets[1].id # <<>>
    /\ Len(tout.data.assets[1].submodels) = 2
    /\ Len(tout.data.assets[2].submodels) = 1
    /\ Len(tout.data.relationships) = 3

Present(s) == s # <<>>

\* What the claim expects of an entity with the given attributes present.
ExpectedLevel(e) ==
    IF Present(e.id) /\ Present(e.description) /\ Present(e.id_short) THEN "HIGH"
    ELSE IF \/ Present(e.id) /\ Present(e.description)
            \/ Present(e.id) /\ Present(e.id_short)
            \/ Present(e.description) /\ Present(e.id_short) THEN "MEDIUM"
    ELSE "LOW"

ExpectedCompliance(e) ==
    IF ~Present(e.id) THEN "NON_COMPLIANT"
    ELSE IF Present(e.description) THEN "COMPLIANT"
    ELSE "PARTIAL"

\* C16: with enrichment enabled every asset and submodel gets quality_level
\* HIGH when id, description and id_short are all present, MEDIUM when
\* exactly two are, LOW otherwise, and compliance_status COMPLIANT when id
\* and description are present, PARTIAL when id is present without
\* description, NON_COMPLIANT when id is absent.
C16_Enrichment ==
    (tout.called /\ transformer.config.enrich_with_external_data) =>
        \A i \in 1..Len(Entities) :
            /\ Entities[i].qi_metadata.set
            /\ Entities[i].qi_metadata.quality_level = ExpectedLevel(Entities[i])
            /\ Entities[i].qi_metadata.compliance_status = ExpectedCompliance(Entities[i])

\* An enriched output with a complete submodel (HIGH, COMPLIANT), an asset
\* with id and description only (MEDIUM, COMPLIANT) and an asset with an id
\* alone (LOW, PARTIAL).
C16_Witness ==
    /\ tout.called
    /\ transformer.config.enrich_with_external_data
    /\ Len(tout.data.assets) = 2
    /\ Len(tout.data.submodels) = 1
    /\ tout.data.submodels[1].qi_metadata.quality_level = "HIGH"
    /\ tout.data.assets[1].qi_metadata.quality_level = "MEDIUM"
    /\ tout.data.assets[1].qi_metadata.compliance_status = "COMPLIANT"
    /\ tout.data.assets[2].id # <<>>
    /\ tout.data.assets[2].qi_metadata.quality_level = "LOW"
    /\ tout.data.assets[2].qi_metadata.compliance_status = "PARTIAL"

(***************************************************************************)
(* SpecExtract: AASXProcessor.process() and the bridge called directly on  *)
(* existing .aasx files.                                                   *)
(***************************************************************************)
InitExtract ==
    /\ PipelineUnused
    /\ TransformerUnused
    /\ ExtractorUnused

\* dotnet_bridge.process_aasx_file(path)
BridgeCall ==
    /\ nextracts < MaxExtracts
    /\ \E run \in BridgeRuns : \E o \in {BridgeProcessAasxFile(run)} :
          /\ temps' = TempsAfter(temps, o)
          /\ xout' = ObserveExtract("bridge", "valid", run, "unavailable", ExtractRaised, o)
    /\ nextracts' = nextracts + 1
    /\ UNCHANGED <<lvars, pvars, tvars, statsOut>>
    /\ UNCHANGED ovars

\* AASXProcessor(path).process(): the bridge is called when it is available.
ProcessCall ==
    /\ nextracts < MaxExtracts
    /\ \E file \in {"corrupt", "valid"}, run \in BridgeRuns, libs \in LibsOutcomes :
          /\ Plausible(file, run, libs)
          /\ \E o \in {IF run = "no_exe" THEN NoBridgeCall ELSE BridgeProcessAasxFile(run)} :
                /\ temps' = TempsAfter(temps, o)
                /\ xout' = ObserveExtract("process", file, run, libs,
                                          Process(ExtractEnv(file, run, libs)), o)
    /\ nextracts' = nextracts + 1
    /\ UNCHANGED <<lvars, pvars, tvars, statsOut>>
    /\ UNCHANGED ovars

NextExtract == BridgeCall \/ ProcessCall

SpecExtract == InitExtract /\ [][NextExtract]_vars

(***************************************************************************)
(* Claims on the Extractor (SpecExtract).                                  *)
(***************************************************************************)
ProcessReturned == xout.called /\ xout.op = "process"

Available(strategy) ==
    CASE strategy = "dotnet" -> xout.run # "no_exe"
      [] strategy = "libs" -> xout.libs # "unavailable"
      [] OTHER -> TRUE

Succeeded(strategy) ==
    CASE strategy = "dotnet" -> xout.run = "data"
      [] strategy = "libs" -> xout.libs = "data"
      [] OTHER -> xout.file = "valid"

MethodOf(strategy) ==
    CASE strategy = "dotnet" -> "dotnet"
      [] strategy = "libs" -> "advanced_aas_libraries"
      [] OTHER -> "basic_zip_processing"

\* The strategy that the priority order puts after a strategy other than
\* the basic walk.
NextAvailable(strategy) ==
    IF strategy = "dotnet" /\ Available("libs") THEN "libs" ELSE "basic"

\* C17: process() starts with the first available strategy of the order
\* external processor, structured libraries, basic walk and runs no
\* unavailable one; a strategy that faults, by a failure value or by an
\* exception, is followed by the next available strategy of the order; a
\* strategy that succeeds is the last to run and its data is returned.
C17_StrategyOrder ==
    ProcessReturned =>
        LET t == xout.result.trace
        IN  /\ t # <<>>
            /\ t[1] = IF Available("dotnet") THEN "dotnet" ELSE NextAvailable("dotnet")
            /\ \A i \in 1..Len(t) :
                  /\ Available(t[i])
                  /\ Succeeded(t[i]) =>
                        /\ i = Len(t)
                        /\ ~xout.result.raised
                        /\ xout.result.method = MethodOf(t[i])
                  /\ (~Succeeded(t[i]) /\ t[i] # "basic") =>
                        /\ i < Len(t)
                        /\ t[i + 1] = NextAvailable(t[i])

\* C18: for an existing .aasx file that is no ZIP archive, process() returns
\* a record with a processing_method and empty collections; it does not
\* raise.
C18_CorruptArchive ==
    (ProcessReturned /\ xout.file = "corrupt") =>
        /\ ~xout.result.raised
        /\ xout.result.method # ""
        /\ xout.result.contents = "empty"

\* C19: when the bridge's process_aasx_file has returned, with data or with
\* a failure, the temporary output file it created is deleted; no call
\* leaves a temporary file on disk.
C19_TempFileDeleted ==
    /\ xout.bridge.called => ~xout.bridge.temp_left
    /\ temps = 0

\* C20: get_database_stats on a store that holds no record returns the four
\* counts assets_count, submodels_count, documents_count and
\* relationships_count, each 0.
C20_EmptyStoreStats ==
    (statsOut.called /\ statsOut.store = RowCounts(EmptyDb)) =>
        /\ statsOut.keys = StatsKeys
        /\ statsOut.counts = RowCounts(EmptyDb)

(***************************************************************************)
(* Further claims on process_aasx_file (Spec).                             *)
(***************************************************************************)
\* C25: a file is reported 'completed' only if its relational load went
\* through: when the relational load of an execution hit a fault, so that
\* its rows were not committed, the result is 'failed'.
C25_CompletedMeansLoaded ==
    (fileOut.called /\ fileOut.relational_failed) => fileOut.result.status = "failed"

\* The time the phases named in a trace add to one phase counter.
PhaseTime(trace, phase) ==
    IF \E i \in 1..Len(trace) : trace[i] = phase THEN PhaseTicks ELSE 0

PhaseSum(st) == st.extract_time + st.transform_time + st.load_time

\* C28: a process_aasx_file call on the orchestrator adds the file's
\* processing_time to total_processing_time when it returns 'completed' and
\* leaves total_processing_time unchanged when it returns 'failed'; in both
\* cases every phase that ran has added its time to its phase counter.
C28_TotalTimeStep ==
    [][ncalls' = ncalls + 1 =>
          /\ fileOut'.result.status = "completed" =>
                stats'.total_processing_time =
                    stats.total_processing_time + fileOut'.result.processing_time
          /\ fileOut'.result.status = "failed" =>
                stats'.total_processing_time = stats.total_processing_time
          /\ stats'.extract_time =
                stats.extract_time + PhaseTime(fileOut'.trace, "extract")
          /\ stats'.transform_time =
                stats.transform_time + PhaseTime(fileOut'.trace, "transform")
          /\ stats'.load_time =
                stats.load_time + PhaseTime(fileOut'.trace, "load")
          /\ fileOut'.trace # <<>>]_vars

\* A file failed in its load phase after a completed one: the three phase
\* counters sum to more than total_processing_time.
C28_Witness ==
    /\ fileOut.called /\ fileOut.on = "self"
    /\ fileOut.result.status = "failed"
    /\ fileOut.trace = <<"extract", "transform", "load">>
    /\ stats.files_processed = 1
    /\ stats.total_processing_time > 0
    /\ PhaseSum(stats) > stats.total_processing_time

\* C29: the error log of the orchestrator holds one message per failed file:
\* its length is files_failed in every state, a call that returns 'failed'
\* appends one message to the log and leaves one in its result's errors, and
\* a call that returns 'completed' appends none and leaves none.
C29_OneMessagePerFailure ==
    /\ [](Len(stats.errors) = stats.files_failed)
    /\ [][ncalls' = ncalls + 1 =>
            /\ fileOut'.result.status = "failed" =>
                  /\ Len(stats'.errors) = Len(stats.errors) + 1
                  /\ SubSeq(stats'.errors, 1, Len(stats.errors)) = stats.errors
                  /\ Len(fileOut'.result.errors) = 1
                  /\ stats'.errors[Len(stats'.errors)] = fileOut'.result.errors[1]
            /\ fileOut'.result.status = "completed" =>
                  /\ stats'.errors = stats.errors
                  /\ fileOut'.result.errors = <<>>]_vars

\* Two files failed, in a directory run on the orchestrator, and the log
\* holds their two messages.
C29_Witness ==
    /\ stats.files_failed = 2
    /\ Len(stats.errors) = 2
    /\ batch.mode = "sequential"
    /\ fileOut.called /\ fileOut.result.status = "failed"

(***************************************************************************)
(* Further claims on the file export of load_aasx_data (SpecLoad).         *)
(***************************************************************************)
\* C23: every path in files_exported of a load names a file the file-export
\* step wrote, for every transformed record including one whose asset and
\* submodel collections are empty.
C23_ListedFilesExist ==
    loadOut.called => Range(loadOut.result.files_exported) \subseteq loadOut.written

(***************************************************************************)
(* Further claims on the clean step of the Transformer (SpecTransform).    *)
(***************************************************************************)
\* The entities of the input the clean step keeps, in order.
Kept(list) == SelectSeq(list, LAMBDA e : ~e.falsy)

\* The flat description the claim expects: of a localized object the en
\* entry when present, otherwise its first string-valued field (text is
\* the only other one that is a string; langString is a list), otherwise
\* the empty string; of a plain string the trimmed string.
ExpectedDescription(d) ==
    IF d.kind = "str" THEN Strip(d.str)
    ELSE IF "en" \in d.keys THEN d.en
    ELSE IF "text" \in d.keys THEN d.text
    ELSE <<>>

\* C24: in the clean step the flat description of an entity is, for a
\* localized object, its en entry when present, otherwise its first
\* string-valued field, otherwise the empty string, and for a plain string
\* the trimmed string.
C24_FlatDescription ==
    tout.called =>
        /\ \A i \in 1..Len(tout.data.assets) :
              tout.data.assets[i].description
                  = ExpectedDescription(Kept(tout.input.assets)[i].description)
        /\ \A j \in 1..Len(tout.data.submodels) :
              tout.data.submodels[j].description
                  = ExpectedDescription(Kept(tout.input.submodels)[j].description)

\* C27: when an asset references a submodel by the raw id under which the
\* submodel appears in the same input, the target_id of the relationship
\* emitted for the reference is the id of that submodel after cleaning.
C27_TargetIsCleanedId ==
    tout.called =>
        LET assets == Kept(tout.input.assets)
            submodels == Kept(tout.input.submodels)
        IN  \A i \in 1..Len(assets) : \A k \in 1..Len(assets[i].submodels) :
              \A j \in 1..Len(submodels) :
                 (submodels[j].id = assets[i].submodels[k])
                    => tout.data.relationships[ReferencesBefore(assets, i) + k].target_id
                          = tout.data.submodels[j].id

(***************************************************************************)
(* SpecQuery: one orchestrator in sequential mode, with its queries        *)
(* between the process_aasx_file and process_aasx_directory calls.         *)
(***************************************************************************)
InitQuery ==
    /\ TransformerUnused
    /\ ExtractorUnused
    /\ statsOut = NoStats
    /\ queryOut = NoQuery
    /\ persist = NoPersist
    /\ config \in {c \in Configs : /\ ~c.backup_existing /\ ~c.embeddings
                                   /\ ~c.parallel_processing}
    /\ db = EmptyDb
    /\ loader = NoLoader
    /\ loadOut = NoLoad
    /\ nloads = 0
    /\ stats = InitialStats
    /\ fileOut = NoFile
    /\ batch = NoBatch
    /\ ncalls = 0
    /\ nruns = 0

NoEffect == [raised |-> FALSE, wrote |-> FALSE, delegated |-> FALSE, returned |-> ""]

\* pipeline.get_pipeline_stats()
GetPipelineStatsCall ==
    /\ Idle
    /\ \E r \in {GetPipelineStats(stats)} :
          /\ stats' = r.stats
          /\ queryOut' = ObserveQuery("get_pipeline_stats", "", FALSE, db, NoEffect)
    /\ UNCHANGED <<config, db, loader, fileOut, batch, ncalls, nruns, loadOut, nloads>>
    /\ UNCHANGED tvars
    /\ UNCHANGED xvars
    /\ UNCHANGED <<statsOut, persist>>

\* pipeline.validate_pipeline()
ValidatePipelineCall ==
    /\ Idle
    /\ \E r \in {ValidatePipeline(stats)} :
          /\ stats' = r.stats
          /\ queryOut' = ObserveQuery("validate_pipeline", "", FALSE, db, NoEffect)
    /\ UNCHANGED <<config, db, loader, fileOut, batch, ncalls, nruns, loadOut, nloads>>
    /\ UNCHANGED tvars
    /\ UNCHANGED xvars
    /\ UNCHANGED <<statsOut, persist>>

\* pipeline.export_pipeline_report(output_path)
ExportPipelineReportCall ==
    /\ Idle
    /\ \E path \in OutputPaths : \E r \in {ExportPipelineReport(stats, path)} :
          /\ stats' = r.stats
          /\ queryOut' = ObserveQuery("export_pipeline_report", path, FALSE, db,
                            [raised |-> r.raised, wrote |-> r.wrote,
                             delegated |-> FALSE, returned |-> r.returned])
    /\ UNCHANGED <<config, db, loader, fileOut, batch, ncalls, nruns, loadOut, nloads>>
    /\ UNCHANGED tvars
    /\ UNCHANGED xvars
    /\ UNCHANGED <<statsOut, persist>>

\* pipeline.create_rag_ready_dataset(output_path)
CreateRagDatasetCall ==
    /\ Idle
    /\ \E path \in OutputPaths : \E ctor_fault \in BOOLEAN :
          \E r \in {CreateRagReadyDataset(db, path, ctor_fault)} :
              /\ db' = r.db
              /\ queryOut' = ObserveQuery("create_rag_ready_dataset", path,
                                          ctor_fault, db, r)
    /\ UNCHANGED <<config, stats, loader, fileOut, batch, ncalls, nruns, loadOut, nloads>>
    /\ UNCHANGED tvars
    /\ UNCHANGED xvars
    /\ UNCHANGED <<statsOut, persist>>

NextQuery ==
    \/ ProcessFileCall
    \/ ResetStats
    \/ StartDirectory
    \/ SequentialStep
    \/ GetPipelineStatsCall
    \/ ValidatePipelineCall
    \/ ExportPipelineReportCall
    \/ CreateRagDatasetCall

SpecQuery == InitQuery /\ [][NextQuery]_vars

RagCalled == queryOut.called /\ queryOut.op = "create_rag_ready_dataset"

NoDecrease(st, st2) ==
    /\ st2.files_processed >= st.files_processed
    /\ st2.files_failed >= st.files_failed
    /\ st2.total_processing_time >= st.total_processing_time
    /\ st2.extract_time >= st.extract_time
    /\ st2.transform_time >= st.transform_time
    /\ st2.load_time >= st.load_time
    /\ Len(st2.errors) >= Len(st.errors)
    /\ SubSeq(st2.errors, 1, Len(st.errors)) = st.errors

\* C22: the statistics are reset by reset_stats only: a step of
\* process_aasx_file, process_aasx_directory, get_pipeline_stats,
\* validate_pipeline or export_pipeline_report decreases no counter and
\* keeps the error log as a prefix of the new one, and a reset_stats step
\* sets the six counters to 0 and empties the error log.
C22_ResetOnlyByReset ==
    [][/\ ~ResetStats => NoDecrease(stats, stats')
       /\ ResetStats =>
             /\ stats'.files_processed = 0
             /\ stats'.files_failed = 0
             /\ stats'.total_processing_time = 0
             /\ stats'.extract_time = 0
             /\ stats'.transform_time = 0
             /\ stats'.load_time = 0
             /\ stats'.errors = <<>>]_vars

\* The statistics were read and the report written after a completed and a
\* failed file, and the counters and the log are as the files left them.
C22_Witness ==
    /\ queryOut.called
    /\ queryOut.op \in {"get_pipeline_stats", "export_pipeline_report"}
    /\ stats.files_processed = 1
    /\ stats.files_failed = 1
    /\ Len(stats.errors) = 1
    /\ stats.total_processing_time > 0

(***************************************************************************)
(* SpecPersist: one orchestrator whose Transformer has a given             *)
(* output_format, processing files one after the other while the clock     *)
(* runs; persist.exports keeps, per call, the second at which the export   *)
(* step ran, the paths it listed and the cleaned data of the file.         *)
(***************************************************************************)
InitPersist ==
    /\ TransformerUnused
    /\ ExtractorUnused
    /\ statsOut = NoStats
    /\ queryOut = NoQuery
    /\ persist \in {[NoPersist EXCEPT !.output_format = f] : f \in OutputFormats}
    /\ config \in {c \in Configs : /\ ~c.backup_existing /\ ~c.embeddings
                                   /\ ~c.parallel_processing}
    /\ db = EmptyDb
    /\ loader = NoLoader
    /\ loadOut = NoLoad
    /\ nloads = 0
    /\ stats = InitialStats
    /\ fileOut = NoFile
    /\ batch = NoBatch
    /\ ncalls = 0
    /\ nruns = 0

\* A second passes.
Tick ==
    /\ persist.clock < MaxSeconds
    /\ persist' = [persist EXCEPT !.clock = @ + 1]
    /\ UNCHANGED lvars
    /\ UNCHANGED pvars
    /\ UNCHANGED tvars
    /\ UNCHANGED xvars
    /\ UNCHANGED <<statsOut, queryOut>>

\* pipeline.process_aasx_file(path) on a package whose cleaned data is
\* `cleaned`: the Transformer hands the Loader the data in its output_format.
PersistFileCall ==
    /\ Idle
    /\ nruns < MaxRuns
    /\ \E cleaned \in DictRecords :
          \E env \in {[BaseEnv EXCEPT
                          !.R = TransformToFormat(persist.output_format, cleaned)]} :
          \E r \in {ProcessAasxFile(0, env, stats, db, loader, config)} :
              /\ stats' = r.stats
              /\ db' = r.db
              /\ loader' = r.loader
              /\ fileOut' = ObserveFile("self", env, r, loader, config)
              /\ persist' = [persist EXCEPT !.exports = Append(@,
                                [cleaned |-> cleaned,
                                 files |-> ExportedPaths(persist.clock,
                                              r.result.load_result.files_exported)])]
    /\ ncalls' = ncalls + 1
    /\ nruns' = nruns + 1
    /\ UNCHANGED <<config, batch, loadOut, nloads>>
    /\ UNCHANGED tvars
    /\ UNCHANGED xvars
    /\ UNCHANGED <<statsOut, queryOut>>

NextPersist ==
    \/ Tick
    \/ PersistFileCall

SpecPersist == InitPersist /\ [][NextPersist]_vars

\* C26: what the pipeline persists does not depend on the Transformer's
\* output_format: after a file completes, the store holds a row for every
\* cleaned asset and submodel of the file, and database_records is the
\* number of its cleaned assets, submodels, documents and relationships.
C26_PersistsCleanedData ==
    (persist.exports # <<>> /\ fileOut.result.status = "completed") =>
        LET cleaned == persist.exports[Len(persist.exports)].cleaned
        IN  /\ Range(cleaned.assets) \subseteq db.assets
            /\ Range(cleaned.submodels) \subseteq db.submodels
            /\ fileOut.result.load_result.database_records = TotalRecords(cleaned)

\* C30: the files of different load calls never overwrite each other: the
\* paths listed by any two calls are disjoint, also when both calls were
\* made within the same second.
C30_ExportsDisjoint ==
    \A i, j \in 1..Len(persist.exports) :
        i # j => persist.exports[i].files \cap persist.exports[j].files = {}

====
